---- MODULE Spec2Model ----
(***************************************************************************)
(* Structural-metrics engine and rule-based smell classifier of the        *)
(* code-quality-assessment repository (src/src/analysis).                  *)
(*                                                                         *)
(* Real-valued metrics are carried as fixed-point integers in units of     *)
(* 1/Scale; Python's None is the value None (every metric the engine       *)
(* produces is a natural number, so the value is free).                    *)
(***************************************************************************)
EXTENDS Integers, Sequences, FiniteSets, TLC

\* ------------------------------------------------------------------ bounds
\* longest finding list handed to smells_to_binary
MaxFindings == 2

\* most nodes of a syntax tree
MaxTreeNodes == 3

\* most methods of a class
MaxMethods == 3

\* most top-level classes of a file, and most base names its class
\* statements list in all
MaxClasses == 3
MaxBaseRefs == 3

\* most nodes and most edges of a call graph
MaxNodes == 3
MaxEdges == 4

\* most files of a directory
MaxBatch == 2

\* most nodes of a module tree whose nesting is measured
MaxNestNodes == 4

\* most lines of a file whose lines are classified
MaxLines == 3

\* most commits of a file's log
MaxCommits == 3

\* most functions and methods of a file whose call graph is built
MaxFuncs == 2

\* finest rounding the aggregator applies: round(irregularity, 4)
Scale == 10000

\* Python's None
None == -1

\* the days of a commit burst window
WindowDays == 7

VARIABLES
    \* --- smell classifier (smell_detector.py)
    cl_pc,      \* "input" | "detected" | "encoded"
    s_in,       \* the numerical summary handed to detect_smells_from_summary
    s_out,      \* its outcome: [raised |-> BOOLEAN, smells |-> list of findings]
    f_in,       \* the finding list handed to smells_to_binary
    y_out,      \* the binary label vector it returned
    \* --- syntax tree walks (python_analyzer.py)
    ast_pc,     \* "parsed" | "measured"
    tree,       \* the parsed tree: [n, parent, kind], node 1 the root
    cc_node,    \* the function node handed to _compute_cyclomatic_complexity
    cc_val,     \* the value it returned
    \* --- per-class metrics of _get_object_oriented_metrics
    oo_pc,      \* "parsed" | "measured"
    cls,        \* one top-level class: [name, class_fields, methods]
    oo_out,     \* its entry of the results list
    \* --- inheritance_depth, run for every class of class_map
    dit_pc,     \* "loop" | "call" | "done"
    class_map,  \* class name -> list of base names (0: no class of the file)
    dit_stack,  \* the frames of inheritance_depth: [c, depth, i]
    dit_seen,   \* the seen set the frames share
    dit_out,    \* the dit of the classes measured so far, in class_map order
    \* --- maximum call depth of _compute_call_graph_metrics
    cg_pc,      \* "loop" | "call" | "done"
    names,      \* the number of nodes; the node names are 1..names, in file order
    edges,      \* the call edges, as pairs (caller, callee)
    cg_stack,   \* the frames of depth: [u, maxd, todo]
    visited,    \* the visited set the frames share
    memo,       \* node -> memoized depth, None while it has none
    depths,     \* the depth of the nodes measured so far, in names order
    max_depth,  \* the running maximum
    \* --- the call graph built by _compute_call_graph_metrics
    cb_pc,      \* "parsed" | "built"
    cb_funcs,   \* the functions and methods found, in file order: [q, calls]
    cb_out,     \* the metrics returned
    \* --- the nesting visitor of _get_complexity_metrics
    ns_pc,      \* "parsed" | "measured"
    ns_tree,    \* the module's tree: [n, parent, kind], node 1 the Module
    ns_out,     \* max_nesting_level
    \* --- the coupling count of _get_object_oriented_metrics
    co_pc,      \* "parsed" | "measured"
    co_file,    \* the names of the top-level classes of the file (class_map)
    co_cls,     \* the class measured: [name, bases, methods], a method [name, calls]
    co_out,     \* its cbo
    \* --- the line classification of _get_size_metrics
    sz_pc,      \* "parsed" | "measured"
    sz_lines,   \* self.lines, each line by what its stripped text is
    sz_ranges,  \* doc_ranges: pairs (start, end) of 0-based line indexes
    sz_out,     \* the metrics returned
    \* --- the commit bursts of _get_vcs_metrics
    br_pc,      \* "logged" | "measured"
    br_dates,   \* the date of each commit of the log, None when it did not parse
    br_out,     \* commit_bursts
    \* --- Analyzer.analyzing and Analyzer.labeling (analyzer.py)
    b_pc,       \* "walk" | "analyzed" | "labeled"
    batch,      \* the files os.walk yields, in order
    pos,        \* how many of them the loop has visited
    total,      \* scanned_files
    errors,     \* errors
    results,    \* the numerical summaries appended so far
    origin,     \* for each of them, the position of its file in batch
    annotated   \* what detect_smells_in_records returned

clVars == <<cl_pc, s_in, s_out, f_in, y_out>>
astVars == <<ast_pc, tree, cc_node, cc_val>>
ooVars == <<oo_pc, cls, oo_out>>
ditVars == <<dit_pc, class_map, dit_stack, dit_seen, dit_out>>
cgVars == <<cg_pc, names, edges, cg_stack, visited, memo, depths, max_depth>>
cbVars == <<cb_pc, cb_funcs, cb_out>>
nsVars == <<ns_pc, ns_tree, ns_out>>
coVars == <<co_pc, co_file, co_cls, co_out>>
szVars == <<sz_pc, sz_lines, sz_ranges, sz_out>>
brVars == <<br_pc, br_dates, br_out>>
bVars == <<b_pc, batch, pos, total, errors, results, origin, annotated>>

vars == <<clVars, astVars, ooVars, ditVars, cgVars, cbVars, nsVars, coVars, szVars, brVars, bVars>>

\* what a step of one part of the engine leaves alone: the other parts
ClFrame == UNCHANGED <<astVars, ooVars, ditVars, cgVars, bVars, cbVars, nsVars, coVars, szVars, brVars>>
AstFrame == UNCHANGED <<clVars, ooVars, ditVars, cgVars, bVars, cbVars, nsVars, coVars, szVars, brVars>>
OoFrame == UNCHANGED <<clVars, astVars, ditVars, cgVars, bVars, cbVars, nsVars, coVars, szVars, brVars>>
DitFrame == UNCHANGED <<clVars, astVars, ooVars, cgVars, bVars, cbVars, nsVars, coVars, szVars, brVars>>
CgFrame == UNCHANGED <<clVars, astVars, ooVars, ditVars, bVars, cbVars, nsVars, coVars, szVars, brVars>>
BFrame == UNCHANGED <<clVars, astVars, ooVars, ditVars, cgVars, cbVars, nsVars, coVars, szVars, brVars>>
BrFrame == UNCHANGED <<clVars, astVars, ooVars, ditVars, cgVars, cbVars, nsVars, coVars, szVars, bVars>>
SzFrame == UNCHANGED <<clVars, astVars, ooVars, ditVars, cgVars, cbVars, nsVars, coVars, bVars, brVars>>
CoFrame == UNCHANGED <<clVars, astVars, ooVars, ditVars, cgVars, cbVars, nsVars, bVars, szVars, brVars>>
CbFrame == UNCHANGED <<clVars, astVars, ooVars, ditVars, cgVars, bVars, nsVars, coVars, szVars, brVars>>
NsFrame == UNCHANGED <<clVars, astVars, ooVars, ditVars, cgVars, cbVars, bVars, coVars, szVars, brVars>>

\* ------------------------------------------------------------- helpers
\* n/d as a fixed-point number
Real(n, d) == (n * Scale) \div d

\* dict.get(k, default)
Get(d, k, default) == IF k \in DOMAIN d THEN d[k] ELSE default

\* the dict without key k
DropKey(d, k) == [x \in (DOMAIN d) \ {k} |-> d[x]]

\* a list of n cross-file call edges
CrossEdges(n) == [i \in 1..n |-> [caller |-> "f", module |-> i]]

\* ------------------------------------------------- smell_detector.py
SMELL_INDEX ==
    [ LongMethod         |-> 0,
      LargeParameterList |-> 1,
      GodClass           |-> 2,
      LazyClass          |-> 3,
      SpaghettiCode      |-> 4,
      PoorDocumentation  |-> 5,
      MisleadingComments |-> 6,
      GlobalStateAbuse   |-> 7,
      FeatureEnvy        |-> 8,
      ShotgunSurgery     |-> 9,
      UntestedCode       |-> 10,
      FormattingIssues   |-> 11,
      UnstableModule     |-> 12 ]

\* CodeSmellDetector.__init__: self.num_labels
num_labels == Cardinality(DOMAIN SMELL_INDEX)

\* s.get("type") of one finding; a finding without the key gives None
NoType == "<None>"
FindingType(f) == IF "type" \in DOMAIN f THEN f.type ELSE NoType

\* the for loop of smells_to_binary, from finding k on
RECURSIVE ScatterWrite(_, _, _)
ScatterWrite(y, smells, k) ==
    IF k > Len(smells) THEN y
    ELSE LET smell_type == FindingType(smells[k])
         IN  ScatterWrite(IF smell_type \in DOMAIN SMELL_INDEX
                            THEN [y EXCEPT ![SMELL_INDEX[smell_type]] = 1]
                            ELSE y,
                          smells, k + 1)

\* mutant: the loop counts the findings of a type instead of flagging them
RECURSIVE ScatterCount(_, _, _)
ScatterCount(y, smells, k) ==
    IF k > Len(smells) THEN y
    ELSE LET smell_type == FindingType(smells[k])
         IN  ScatterCount(IF smell_type \in DOMAIN SMELL_INDEX
                            THEN [y EXCEPT ![SMELL_INDEX[smell_type]] = @ + 1]
                            ELSE y,
                          smells, k + 1)

SmellsToBinary_Count(smells) ==
    ScatterCount([i \in 0..(num_labels - 1) |-> 0], smells, 1)

\* mutant: the vector is only as long as the highest index written
SmellsToBinary_Sparse(smells) ==
    LET full == ScatterWrite([i \in 0..(num_labels - 1) |-> 0], smells, 1)
        hit  == {i \in DOMAIN full : full[i] = 1}
        top  == IF hit = {} THEN -1 ELSE CHOOSE i \in hit : \A j \in hit : j <= i
    IN  [i \in 0..top |-> full[i]]

\* CodeSmellDetector.smells_to_binary
SmellsToBinary(smells) ==
    ScatterWrite([i \in 0..(num_labels - 1) |-> 0], smells, 1)

Finding(t, sev) == [type |-> t, severity |-> sev]

has_functions(s) == Get(s, "functions", 0) > 0
has_classes(s) == Get(s, "classes", 0) > 0

\* cross_calls: the length of the list, 0 when the value is no list
cross_calls(s) == Len(Get(s, "cross_file_call_edges", <<>>))

\* mutant: the strict comparisons of the first rule written as >=
LongMethodRule_AtOrOver(s) ==
    has_functions(s) /\
    (  Get(s, "max_lines_per_function", 0) >= 50
    \/ Get(s, "max_cyclomatic_ratio", 0) >= Real(1, 2)
    \/ Get(s, "max_nesting_level", 0) >= 4 )

LongMethodRule(s) ==
    has_functions(s) /\
    (  Get(s, "max_lines_per_function", 0) > 50
    \/ Get(s, "max_cyclomatic_ratio", 0) > Real(1, 2)
    \/ Get(s, "max_nesting_level", 0) > 4 )

LargeParameterListRule(s) ==
    has_functions(s) /\
    (  Get(s, "large_parameter_list_indicator", FALSE)
    \/ Get(s, "mean_param_entropy", 0) > Real(2, 1) )

LazyClassRule(s) ==
    has_classes(s) /\
    (  Get(s, "average_methods_per_class", 0) < Real(2, 1)
    /\ Get(s, "mean_lines_per_class", 0) < Real(50, 1) )

GodClassRule(s) ==
    has_classes(s) /\
    (  Get(s, "inter_file_coupling", 0) > 20
    \/ cross_calls(s) > 15
    \/ Get(s, "average_cyclomatic_complexity", 0) > Real(15, 1) )

SpaghettiCodeRule(s) ==
    has_functions(s) /\
    (  Get(s, "average_cyclomatic_complexity", 0) > Real(10, 1)
    \/ Get(s, "nesting_variance", 0) > Real(3, 2) )

PoorDocumentationRule(s) ==
    Get(s, "lines_of_code", 0) > 20 /\
    (  Get(s, "documentation_coverage", Real(100, 1)) < Real(20, 1)
    \/ Get(s, "comment_percentage", Real(100, 1)) < Real(5, 1) )

MisleadingCommentsRule(s) ==
    Get(s, "comment_code_mismatch_score", 0) > Real(7, 10)

GlobalStateAbuseRule(s) ==
    \/ Get(s, "globals_declared", 0) > 3
    \/ Get(s, "global_usages_total", 0) > 10

FeatureEnvyRule(s) ==
    has_functions(s) /\
    (  Get(s, "external_vs_internal_field_access_ratio", 0) > Real(3, 1)
    \/ cross_calls(s) > 10 )

\* evaluated only when commit_bursts is a number
ShotgunSurgeryRule(s) ==
    /\ Get(s, "commit_bursts", 0) > 3
    /\ Get(s, "inter_file_coupling", 0) > 10

FormattingIssuesRule(s) ==
    \/ Get(s, "pep8_violations", 0) > 5
    \/ Get(Get(s, "indentation_irregularity", <<>>), "irregularity_score", 0)
          > Real(1, 1)

UntestedCodeRule(s) ==
    Get(s, "lines_of_code", 0) > 50 /\ ~Get(s, "unit_test_presence", FALSE)

\* evaluated only when the operands it reaches are numbers
UnstableModuleRule(s) ==
    \/ Get(s, "commit_bursts", 0) > 5
    \/ Get(s, "lines_added", 0) > 500

\* None > 3 raises TypeError: line 135 always compares commit_bursts, line 162
\* compares lines_added unless commit_bursts > 5 already decided the rule
DetectRaises(s) ==
    \/ Get(s, "commit_bursts", 0) = None
    \/ (~(Get(s, "commit_bursts", 0) > 5) /\ Get(s, "lines_added", 0) = None)

When(rule, finding) == IF rule THEN <<finding>> ELSE <<>>

\* the findings in the order the rules append them
SmellList(s) ==
       When(LongMethodRule(s), Finding("LongMethod", "MAJOR"))
    \o When(LargeParameterListRule(s), Finding("LargeParameterList", "MINOR"))
    \o When(LazyClassRule(s), Finding("LazyClass", "MINOR"))
    \o When(GodClassRule(s), Finding("GodClass", "CRITICAL"))
    \o When(SpaghettiCodeRule(s), Finding("SpaghettiCode", "MAJOR"))
    \o When(PoorDocumentationRule(s), Finding("PoorDocumentation", "MINOR"))
    \o When(MisleadingCommentsRule(s), Finding("MisleadingComments", "MINOR"))
    \o When(GlobalStateAbuseRule(s), Finding("GlobalStateAbuse", "MAJOR"))
    \o When(FeatureEnvyRule(s), Finding("FeatureEnvy", "MINOR"))
    \o When(ShotgunSurgeryRule(s), Finding("ShotgunSurgery", "MAJOR"))
    \o When(FormattingIssuesRule(s), Finding("FormattingIssues", "INFO"))
    \o When(UntestedCodeRule(s), Finding("UntestedCode", "MAJOR"))
    \o When(UnstableModuleRule(s), Finding("UnstableModule", "MINOR"))

\* CodeSmellDetector.detect_smells_from_summary: the list, or the TypeError
DetectSmellsFromSummary(s) ==
    IF DetectRaises(s)
      THEN [raised |-> TRUE, smells |-> <<>>]
      ELSE [raised |-> FALSE, smells |-> SmellList(s)]

Types(smells) == {FindingType(smells[k]) : k \in 1..Len(smells)}

\* ------------------------------------------- python_analyzer.py: tree walks
FunctionKinds == {"FunctionDef", "AsyncFunctionDef"}

\* the node classes _compute_cyclomatic_complexity tests with isinstance
DecisionTypes ==
    {"If", "For", "While", "Try", "With", "IfExp", "BoolOp", "ExceptHandler",
     "comprehension"}

\* node classes of the trees: the above, nested definitions, and statements
\* the complexity count passes over
NodeKinds == DecisionTypes \cup {"FunctionDef", "AsyncFor", "Assign"}

\* ast.iter_child_nodes(node), in source order
ChildNodes(t, node) ==
    LET kids == {c \in 1..t.n : t.parent[c] = node}
        RECURSIVE InOrder(_)
        InOrder(S) ==
            IF S = {} THEN <<>>
            ELSE LET c == CHOOSE x \in S : \A z \in S : x <= z
                 IN  <<c>> \o InOrder(S \ {c})
    IN  InOrder(kids)

\* ast.walk(node): breadth first from a queue
RECURSIVE WalkFrom(_, _)
WalkFrom(t, todo) ==
    IF todo = <<>> THEN <<>>
    ELSE <<Head(todo)>> \o WalkFrom(t, Tail(todo) \o ChildNodes(t, Head(todo)))

Walk(t, node) == WalkFrom(t, <<node>>)

\* the decisions counted along a walk
RECURSIVE CountDecisions(_, _, _)
CountDecisions(t, w, k) ==
    IF k > Len(w) THEN 0
    ELSE (IF t.kind[w[k]] \in DecisionTypes THEN 1 ELSE 0)
            + CountDecisions(t, w, k + 1)

\* mutant: the count is returned without the base path
ComputeCyclomaticComplexity_NoBase(t, node) ==
    CountDecisions(t, Walk(t, node), 1)

\* PythonCodeAnalyzer._compute_cyclomatic_complexity
ComputeCyclomaticComplexity(t, node) ==
    CountDecisions(t, Walk(t, node), 1) + 1

\* the parent of every node of a tree of n nodes: node 1 has none, every
\* other node hangs below an earlier one
ParentMaps(n) ==
    {q \in [1..n -> 0..(n - 1)] : q[1] = 0 /\ \A i \in 2..n : q[i] \in 1..(i - 1)}

\* the trees of n nodes: node 1 a function definition
Trees(n) ==
    { [n |-> n, parent |-> p, kind |-> [i \in 1..n |-> IF i = 1 THEN r ELSE k[i]]] :
        p \in ParentMaps(n), r \in FunctionKinds, k \in [2..n -> NodeKinds] }

AstInit ==
    /\ ast_pc = "parsed"
    /\ \E n \in 1..MaxTreeNodes : tree \in Trees(n)
    /\ cc_node = 0
    /\ cc_val = 0

\* cc = self._compute_cyclomatic_complexity(node), for a function node of the tree
MeasureFunction ==
    /\ ast_pc = "parsed"
    /\ \E f \in 1..tree.n :
          /\ tree.kind[f] \in FunctionKinds
          /\ cc_node' = f
          /\ cc_val' = ComputeCyclomaticComplexity(tree, f)
    /\ ast_pc' = "measured"
    /\ UNCHANGED tree
    /\ AstFrame

AstNext == MeasureFunction

\* ------------------------- python_analyzer.py: _get_object_oriented_metrics
Max(a, b) == IF a >= b THEN a ELSE b

\* round(n / d, digits) as a fixed-point number, p = 10^digits (no quotient
\* of the model is a tie, where Python rounds to even)
Round(n, d, p) == ((2 * p * n + d) \div (2 * d)) * (Scale \div p)

\* sum(q[k:]) of a list of numbers
RECURSIVE SumFrom(_, _)
SumFrom(q, k) == IF k > Len(q) THEN 0 ELSE q[k] + SumFrom(q, k + 1)

Sum(q) == SumFrom(q, 1)

\* method_field_access[name]: the fields of the last method of that name
MethodFieldAccess(methods, name) ==
    LET last == CHOOSE k \in 1..Len(methods) :
                    /\ methods[k].name = name
                    /\ \A j \in (k + 1)..Len(methods) : methods[j].name # name
    IN  methods[last].accessed

\* the pairs (i, j), i < j, whose methods share a field
SharedPairs(methods) ==
    { p \in (1..Len(methods)) \X (1..Len(methods)) :
        /\ p[1] < p[2]
        /\ MethodFieldAccess(methods, methods[p[1]].name)
             \cap MethodFieldAccess(methods, methods[p[2]].name) # {} }

\* mutant: one minus the share of cohesive pairs, without the guard on m
Lcom_NoGuard(methods) ==
    LET m      == Len(methods)
        pairs  == (m * (m - 1)) \div 2
        shared == Cardinality(SharedPairs(methods))
    IN  Round(Max(1, pairs) - shared, Max(1, pairs), 1000)

\* lines 511-525: lcom, rounded as the results entry stores it
Lcom(methods) ==
    LET m      == Len(methods)
        pairs  == (m * (m - 1)) \div 2
        shared == Cardinality(SharedPairs(methods))
    IN  IF m <= 1 THEN 0
        ELSE IF pairs > 0 THEN Round(pairs - shared, pairs, 1000) ELSE 0

\* _compute_cyclomatic_complexity of a function given by its node counts:
\* controls (if, for, while, try, with, conditional expression) and the other
\* decisions (boolean operation, exception handler, comprehension)
MethodCc(m) == m.controls + m.others + 1

\* instance_fields: every self.x a method assigns
InstanceFields(methods) == UNION {methods[k].assigned : k \in 1..Len(methods)}

\* the entry results.append(...) adds for one class
ClassEntry(c) ==
    [ name    |-> c.name,
      methods |-> Len(c.methods),
      wmc     |-> Sum([k \in 1..Len(c.methods) |-> MethodCc(c.methods[k])]),
      lcom    |-> Lcom(c.methods),
      tna     |-> Cardinality(c.class_fields \cup InstanceFields(c.methods)),
      dit     |-> c.dit ]

FieldNames == {"x", "y"}

\* a function or method without decisions, attribute accesses or calls
PlainFunction ==
    [ name |-> "f", is_async |-> FALSE, loc |-> 3, args |-> 1,
      controls |-> 0, others |-> 0,
      accessed |-> {}, assigned |-> {}, int_attr |-> 0, ext_attr |-> 0,
      modules |-> {} ]

\* a method: its name, the self.x it reads or writes, the self.x it assigns
MethodShapes ==
    { [PlainFunction EXCEPT !.name = nm, !.accessed = a, !.assigned = a \cap {"x"},
                            !.int_attr = Cardinality(a)] :
        nm \in {"f", "g"}, a \in SUBSET FieldNames }

OoInit ==
    /\ oo_pc = "parsed"
    /\ cls \in { [name |-> "A", class_fields |-> cf, methods |-> ms, dit |-> 0] :
                   cf \in {{}, {"y"}},
                   ms \in UNION {[1..n -> MethodShapes] : n \in 0..MaxMethods} }
    /\ oo_out = <<>>

\* one pass of the loop over class_map.items()
MeasureClass ==
    /\ oo_pc = "parsed"
    /\ oo_out' = ClassEntry(cls)
    /\ oo_pc' = "measured"
    /\ UNCHANGED cls
    /\ OoFrame

OoNext == MeasureClass

\* --------------------------------- inheritance_depth (lines 453-465, 559)
ClassNames == DOMAIN class_map

Top(stack) == stack[Len(stack)]
Pop(stack) == SubSeq(stack, 1, Len(stack) - 1)
SetTop(stack, f) == [stack EXCEPT ![Len(stack)] = f]

\* base.id in class_map
Resolves(base) == base \in ClassNames

\* mutant: the guard on seen never answers
AlreadySeen_Never(c) == FALSE

\* cnode.name in seen
AlreadySeen(c) == c \in dit_seen

\* the declarations of k classes with at most r base names in all
RECURSIVE ClassMaps(_, _)
ClassMaps(k, r) ==
    IF r = 0 THEN {[c \in 1..k |-> <<>>]}
    ELSE LET fewer == ClassMaps(k, r - 1)
         IN  fewer \cup { [m EXCEPT ![c] = Append(@, b)] :
                            m \in fewer, c \in 1..k, b \in 0..k }

DitInit ==
    /\ dit_pc = "loop"
    /\ class_map \in UNION {ClassMaps(k, MaxBaseRefs) : k \in 0..MaxClasses}
    /\ dit_stack = <<>>
    /\ dit_seen = {}
    /\ dit_out = <<>>

\* dit = inheritance_depth(cnode): seen is a fresh set, the class enters it
DitCall ==
    /\ dit_pc = "loop"
    /\ Len(dit_out) < Cardinality(ClassNames)
    /\ LET c == Len(dit_out) + 1
       IN  /\ dit_seen' = {c}
           /\ dit_stack' = <<[c |-> c, depth |-> 0, i |-> 1]>>
    /\ dit_pc' = "call"
    /\ UNCHANGED <<class_map, dit_out>>
    /\ DitFrame

\* the loop over class_map.items() is over
DitFinish ==
    /\ dit_pc = "loop"
    /\ Len(dit_out) = Cardinality(ClassNames)
    /\ dit_pc' = "done"
    /\ UNCHANGED <<class_map, dit_stack, dit_seen, dit_out>>
    /\ DitFrame

\* a base that is no class of the file: depth = max(depth, 1)
DitBaseExternal ==
    /\ dit_pc = "call"
    /\ LET f == Top(dit_stack)
       IN  /\ f.i <= Len(class_map[f.c])
           /\ ~Resolves(class_map[f.c][f.i])
           /\ dit_stack' = SetTop(dit_stack,
                                  [f EXCEPT !.depth = Max(f.depth, 1), !.i = f.i + 1])
    /\ UNCHANGED <<dit_pc, class_map, dit_seen, dit_out>>
    /\ DitFrame

\* a base already in seen: the recursive call returns 0 at once
DitBaseSeen ==
    /\ dit_pc = "call"
    /\ LET f == Top(dit_stack)
       IN  /\ f.i <= Len(class_map[f.c])
           /\ Resolves(class_map[f.c][f.i])
           /\ AlreadySeen(class_map[f.c][f.i])
           /\ dit_stack' = SetTop(dit_stack,
                                  [f EXCEPT !.depth = Max(f.depth, 1 + 0), !.i = f.i + 1])
    /\ UNCHANGED <<dit_pc, class_map, dit_seen, dit_out>>
    /\ DitFrame

\* a base not yet seen: the recursive call adds it to seen and walks its bases
DitBaseDescend ==
    /\ dit_pc = "call"
    /\ LET f == Top(dit_stack)
       IN  /\ f.i <= Len(class_map[f.c])
           /\ Resolves(class_map[f.c][f.i])
           /\ ~AlreadySeen(class_map[f.c][f.i])
           /\ dit_seen' = dit_seen \cup {class_map[f.c][f.i]}
           /\ dit_stack' = Append(dit_stack,
                                  [c |-> class_map[f.c][f.i], depth |-> 0, i |-> 1])
    /\ UNCHANGED <<dit_pc, class_map, dit_out>>
    /\ DitFrame

\* return depth: to the caller's max(depth, 1 + ...), or to the results entry
DitReturn ==
    /\ dit_pc = "call"
    /\ LET f == Top(dit_stack)
       IN  /\ f.i > Len(class_map[f.c])
           /\ IF Len(dit_stack) > 1
                THEN LET g == dit_stack[Len(dit_stack) - 1]
                     IN  /\ dit_stack' =
                               SetTop(Pop(dit_stack),
                                      [g EXCEPT !.depth = Max(g.depth, 1 + f.depth),
                                                !.i = g.i + 1])
                         /\ UNCHANGED <<dit_pc, dit_out>>
                ELSE /\ dit_stack' = <<>>
                     /\ dit_out' = Append(dit_out, f.depth)
                     /\ dit_pc' = "loop"
    /\ UNCHANGED <<class_map, dit_seen>>
    /\ DitFrame

DitNext ==
    \/ DitCall
    \/ DitFinish
    \/ DitBaseExternal
    \/ DitBaseSeen
    \/ DitBaseDescend
    \/ DitReturn

\* ------------------- depth and its loop over names (lines 667-691)
\* the graphs on nodes 1..n with at most e edges, self-calls included
RECURSIVE EdgeSets(_, _)
EdgeSets(n, e) ==
    IF e = 0 THEN {{}}
    ELSE LET fewer == EdgeSets(n, e - 1)
         IN  fewer \cup {g \cup {p} : g \in fewer, p \in (1..n) \X (1..n)}

\* edges.get(u, [])
Callees(u) == {v \in 1..names : <<u, v>> \in edges}

\* mutant: the guard on visited never answers
OnPath_Never(v) == FALSE

\* v in visited
OnPath(v) == v \in visited

CgInit ==
    /\ cg_pc = "loop"
    /\ names \in 0..MaxNodes
    /\ edges \in EdgeSets(names, MaxEdges)
    /\ cg_stack = <<>>
    /\ visited = {}
    /\ memo = [u \in 1..names |-> None]
    /\ depths = <<>>
    /\ max_depth = 0

\* d = depth(n, set()) for a node already in memo
CgRootMemo ==
    /\ cg_pc = "loop"
    /\ Len(depths) < names
    /\ LET n == Len(depths) + 1
       IN  /\ memo[n] # None
           /\ depths' = Append(depths, memo[n])
           /\ max_depth' = Max(max_depth, memo[n])
    /\ visited' = {}
    /\ UNCHANGED <<cg_pc, names, edges, cg_stack, memo>>
    /\ CgFrame

\* d = depth(n, set()) for a node not in memo: it enters the fresh visited set
CgRootCall ==
    /\ cg_pc = "loop"
    /\ Len(depths) < names
    /\ LET n == Len(depths) + 1
       IN  /\ memo[n] = None
           /\ visited' = {n}
           /\ cg_stack' = <<[u |-> n, maxd |-> 0, todo |-> Callees(n)]>>
    /\ cg_pc' = "call"
    /\ UNCHANGED <<names, edges, memo, depths, max_depth>>
    /\ CgFrame

\* the loop over names is over
CgFinish ==
    /\ cg_pc = "loop"
    /\ Len(depths) = names
    /\ cg_pc' = "done"
    /\ UNCHANGED <<names, edges, cg_stack, visited, memo, depths, max_depth>>
    /\ CgFrame

\* for v in edges.get(u, []): the set yields its members in any order;
\* a callee on the current path is skipped
CgSkipOnPath ==
    /\ cg_pc = "call"
    /\ LET f == Top(cg_stack)
       IN  \E v \in f.todo :
              /\ OnPath(v)
              /\ cg_stack' = SetTop(cg_stack, [f EXCEPT !.todo = @ \ {v}])
    /\ UNCHANGED <<cg_pc, names, edges, visited, memo, depths, max_depth>>
    /\ CgFrame

\* depth(v, visited) answers from memo
CgUseMemo ==
    /\ cg_pc = "call"
    /\ LET f == Top(cg_stack)
       IN  \E v \in f.todo :
              /\ ~OnPath(v)
              /\ memo[v] # None
              /\ cg_stack' = SetTop(cg_stack,
                    [f EXCEPT !.todo = @ \ {v}, !.maxd = Max(@, 1 + memo[v])])
    /\ UNCHANGED <<cg_pc, names, edges, visited, memo, depths, max_depth>>
    /\ CgFrame

\* depth(v, visited) for a callee without memo: a new frame, v enters visited
CgDescend ==
    /\ cg_pc = "call"
    /\ LET f == Top(cg_stack)
       IN  \E v \in f.todo :
              /\ ~OnPath(v)
              /\ memo[v] = None
              /\ visited' = visited \cup {v}
              /\ cg_stack' = Append(SetTop(cg_stack, [f EXCEPT !.todo = @ \ {v}]),
                                    [u |-> v, maxd |-> 0, todo |-> Callees(v)])
    /\ UNCHANGED <<cg_pc, names, edges, memo, depths, max_depth>>
    /\ CgFrame

\* visited.remove(u); memo[u] = maxd; return maxd
CgReturn ==
    /\ cg_pc = "call"
    /\ LET f == Top(cg_stack)
       IN  /\ f.todo = {}
           /\ visited' = visited \ {f.u}
           /\ memo' = [memo EXCEPT ![f.u] = f.maxd]
           /\ IF Len(cg_stack) > 1
                THEN LET g == cg_stack[Len(cg_stack) - 1]
                     IN  /\ cg_stack' = SetTop(Pop(cg_stack),
                                  [g EXCEPT !.maxd = Max(@, 1 + f.maxd)])
                         /\ UNCHANGED <<cg_pc, depths, max_depth>>
                ELSE /\ cg_stack' = <<>>
                     /\ depths' = Append(depths, f.maxd)
                     /\ max_depth' = Max(max_depth, f.maxd)
                     /\ cg_pc' = "loop"
    /\ UNCHANGED <<names, edges>>
    /\ CgFrame

CgNext ==
    \/ CgRootMemo
    \/ CgRootCall
    \/ CgFinish
    \/ CgSkipOnPath
    \/ CgUseMemo
    \/ CgDescend
    \/ CgReturn

\* ------------------------------------------- classifier: inputs and steps
\* every metric exactly at the threshold a rule of the table tests it against
\* (the lower threshold where the table tests one metric in two rules)
BoundarySummary ==
    [ lines_of_code                  |-> 20,
      functions                      |-> 1,
      classes                        |-> 1,
      max_lines_per_function         |-> 50,
      max_cyclomatic_ratio           |-> Real(1, 2),
      max_nesting_level              |-> 4,
      large_parameter_list_indicator |-> FALSE,
      mean_param_entropy             |-> Real(2, 1),
      average_methods_per_class      |-> Real(2, 1),
      mean_lines_per_class           |-> Real(50, 1),
      cross_file_call_edges          |-> CrossEdges(10),
      inter_file_coupling            |-> 20,
      average_cyclomatic_complexity  |-> Real(10, 1),
      nesting_variance               |-> Real(3, 2),
      documentation_coverage         |-> Real(20, 1),
      comment_percentage             |-> Real(5, 1),
      comment_code_mismatch_score    |-> Real(7, 10),
      globals_declared               |-> 3,
      global_usages_total            |-> 10,
      external_vs_internal_field_access_ratio |-> Real(3, 1),
      commit_bursts                  |-> 5,
      pep8_violations                |-> 5,
      indentation_irregularity       |->
          [irregularity_score |-> Real(1, 1), tab_lines |-> 0, mixed_tabs |-> 0],
      unit_test_presence             |-> FALSE,
      lines_added                    |-> 500 ]

\* the dict with key k set to v
SetKey(d, k, v) == [x \in (DOMAIN d) \cup {k} |-> IF x = k THEN v ELSE d[x]]

\* values around each threshold; None only where the aggregator can emit it
Variations ==
    { <<"lines_of_code", 0>>, <<"lines_of_code", 21>>, <<"lines_of_code", 51>>,
      <<"functions", 0>>, <<"classes", 0>>,
      <<"max_lines_per_function", 51>>,
      <<"max_cyclomatic_ratio", Real(1, 2) + 1>>,
      <<"max_nesting_level", 5>>,
      <<"large_parameter_list_indicator", TRUE>>,
      <<"mean_param_entropy", Real(2, 1) + 1>>,
      <<"average_methods_per_class", Real(2, 1) - 1>>,
      <<"mean_lines_per_class", Real(50, 1) - 1>>,
      <<"mean_lines_per_class", 0>>,
      <<"cross_file_call_edges", CrossEdges(0)>>,
      <<"cross_file_call_edges", CrossEdges(11)>>,
      <<"cross_file_call_edges", CrossEdges(16)>>,
      <<"inter_file_coupling", 0>>, <<"inter_file_coupling", 10>>,
      <<"inter_file_coupling", 11>>, <<"inter_file_coupling", 21>>,
      <<"average_cyclomatic_complexity", Real(10, 1) + 1>>,
      <<"average_cyclomatic_complexity", Real(15, 1) + 1>>,
      <<"nesting_variance", Real(3, 2) + 1>>,
      <<"documentation_coverage", Real(20, 1) - 1>>,
      <<"documentation_coverage", Real(100, 1)>>,
      <<"comment_percentage", 0>>, <<"comment_percentage", Real(5, 1) - 1>>,
      <<"comment_code_mismatch_score", Real(7, 10) + 1>>,
      <<"globals_declared", 4>>, <<"global_usages_total", 11>>,
      <<"external_vs_internal_field_access_ratio", Real(3, 1) + 1>>,
      <<"commit_bursts", None>>, <<"commit_bursts", 0>>, <<"commit_bursts", 3>>,
      <<"commit_bursts", 4>>, <<"commit_bursts", 6>>,
      <<"pep8_violations", 6>>,
      <<"indentation_irregularity",
        [irregularity_score |-> Real(1, 1) + 1, tab_lines |-> 0, mixed_tabs |-> 0]>>,
      <<"unit_test_presence", TRUE>>,
      <<"lines_added", None>>, <<"lines_added", 0>>, <<"lines_added", 501>> }

\* b itself, b with one key changed, b with one key absent
Vary(b) ==
    {b} \cup {SetKey(b, kv[1], kv[2]) : kv \in Variations}
        \cup {DropKey(b, k) : k \in DOMAIN b}

Vary2(b) == UNION {Vary(c) : c \in Vary(b)}

\* more than 20 lines and no comment line
UncommentedSummary ==
    [BoundarySummary EXCEPT !.lines_of_code = 21, !.comment_percentage = 0]

EmptyDict == [x \in {} |-> 0]

Summaries == Vary2(BoundarySummary) \cup Vary2(UncommentedSummary) \cup Vary2(EmptyDict)

\* findings of every indexed type, of a type outside the table, and without type
FindingUniverse ==
    {Finding(t, "MAJOR") : t \in (DOMAIN SMELL_INDEX) \cup {"DeadCode"}}
        \cup {[severity |-> "INFO"]}

FindingLists == UNION {[1..n -> FindingUniverse] : n \in 0..MaxFindings}

ClInit ==
    /\ s_out = [raised |-> FALSE, smells |-> <<>>]
    /\ y_out = <<>>
    /\ \/ cl_pc = "input" /\ s_in \in Summaries /\ f_in = <<>>
       \/ cl_pc = "list" /\ s_in = <<>> /\ f_in \in FindingLists

\* detector.detect_smells_from_summary(s_in)
Detect ==
    /\ cl_pc = "input"
    /\ s_out' = DetectSmellsFromSummary(s_in)
    /\ cl_pc' = "detected"
    /\ UNCHANGED <<s_in, f_in, y_out>>
    /\ ClFrame

\* detector.smells_to_binary(smells) on the findings just detected
EncodeDetected ==
    /\ cl_pc = "detected"
    /\ ~s_out.raised
    /\ f_in' = s_out.smells
    /\ y_out' = SmellsToBinary(s_out.smells)
    /\ cl_pc' = "encoded"
    /\ UNCHANGED <<s_in, s_out>>
    /\ ClFrame

\* detector.smells_to_binary(f_in) on a list the caller supplies
EncodeList ==
    /\ cl_pc = "list"
    /\ y_out' = SmellsToBinary(f_in)
    /\ cl_pc' = "encoded"
    /\ UNCHANGED <<s_in, s_out, f_in>>
    /\ ClFrame

ClNext == Detect \/ EncodeDetected \/ EncodeList

\* ------------------------------- python_analyzer.py: the numerical summary
\* A source file is given by what the extractors read from it:
\*   py, parses        the name ends in .py; analyze() returns (open(),
\*                     ast.parse and the extractors raise nothing)
\*   LOC, SLOC, CLOC   total, code and comment lines
\*   module_controls   control structures outside every function
\*   classes           the classes of tree.body (name, class_fields, methods,
\*                     dit, and of the class statement: assigns, the number
\*                     of assignments in its body, and line_count, its
\*                     end_lineno - lineno), nested_classes the number of the
\*                     other ClassDef
\*   funcs             the functions outside classes
\*   git, linter       what the two subprocesses answer
\*   other             the values of the extractors the model takes as given
\* A function is given by its node counts (see PlainFunction); modules are
\* the roots m of its calls m.f that resolve to no function of the file,
\* numbered in sorted order. Functions are not nested and qualified names are
\* distinct. Collections no rule looks into are kept by their size:
\* coupled_file_changes, top_coupled_files, pep8 examples.

\* the methods of the classes of tree.body, then the free functions
RECURSIVE MethodsFrom(_, _)
MethodsFrom(classes, k) ==
    IF k > Len(classes) THEN <<>>
    ELSE [i \in 1..Len(classes[k].methods) |->
              [fn |-> classes[k].methods[i], cls |-> classes[k].name]]
         \o MethodsFrom(classes, k + 1)

AllFunctions(f) ==
    MethodsFrom(f.classes, 1)
        \o [i \in 1..Len(f.funcs) |-> [fn |-> f.funcs[i], cls |-> ""]]

MaxOf(S) == IF S = {} THEN 0 ELSE CHOOSE x \in S : \A y \in S : y <= x

\* _get_size_metrics
SizeMetrics(f) == [LOC |-> f.LOC, SLOC |-> f.SLOC, CLOC |-> f.CLOC]

\* _get_structure_metrics: ast.walk counts every ClassDef, every FunctionDef
\* and, apart, every AsyncFunctionDef
StructureMetrics(f) ==
    LET all == AllFunctions(f)
    IN  [ classes         |-> Len(f.classes) + f.nested_classes,
          functions       |->
              Cardinality({k \in 1..Len(all) : ~all[k].fn.is_async}),
          async_functions |->
              Cardinality({k \in 1..Len(all) : all[k].fn.is_async}) ]

\* _get_complexity_metrics: control structures of the whole tree
TotalControlStructures(f) ==
    LET all == AllFunctions(f)
    IN  f.module_controls + Sum([k \in 1..Len(all) |-> all[k].fn.controls])

\* round(average_cyclomatic_per_function, 2)
AverageCyclomaticComplexity(f) ==
    Round(TotalControlStructures(f) + 1,
          Max(1, StructureMetrics(f).functions), 100)

\* _get_function_metrics: one entry per FunctionDef or AsyncFunctionDef
FunctionMetrics(f) ==
    LET all == AllFunctions(f)
    IN  [ i \in 1..Len(all) |->
            [ name                  |-> all[i].fn.name,
              args_count            |-> all[i].fn.args,
              is_async              |-> all[i].fn.is_async,
              is_method             |-> all[i].cls # "",
              cyclomatic_complexity |-> MethodCc(all[i].fn),
              loc                   |-> all[i].fn.loc,
              internal_attr_access  |-> all[i].fn.int_attr,
              external_attr_access  |-> all[i].fn.ext_attr ] ]

\* _get_object_oriented_metrics: the short dict of a file without classes in
\* tree.body, else the entries of its classes and their totals
ObjectOrientedMetrics(f) ==
    IF Len(f.classes) = 0
      THEN [ total_classes |-> 0, average_methods_per_class |-> 0,
             classes_with_inheritance |-> 0, average_inheritance_depth |-> 0 ]
      ELSE LET res == [k \in 1..Len(f.classes) |-> ClassEntry(f.classes[k])]
           IN  [ total_classes            |-> Len(res),
                 classes                  |-> res,
                 total_methods            |-> Sum([k \in 1..Len(res) |-> res[k].methods]),
                 classes_with_inheritance |-> 
                     Cardinality({k \in 1..Len(res) : res[k].dit > 0}) ]

\* _get_class_metrics: the class_info of each class (the files of the model
\* nest no class), lazy_ratio rounded to three places
ClassMetrics(f) ==
    [ k \in 1..Len(f.classes) |->
        [ name       |-> f.classes[k].name,
          methods    |-> Len(f.classes[k].methods),
          attributes |-> f.classes[k].assigns,
          lazy_ratio |-> Round(f.classes[k].assigns,
                               Max(1, Len(f.classes[k].methods)), 1000),
          line_count |-> f.classes[k].line_count ] ]

\* the sorted list of a set of numbers
RECURSIVE Sorted(_)
Sorted(S) ==
    IF S = {} THEN <<>>
    ELSE LET least == CHOOSE x \in S : \A y \in S : x <= y
         IN  <<least>> \o Sorted(S \ {least})

\* cross_file_call_edges: for each caller of cross_module_calls, an edge to
\* each module it calls
RECURSIVE CrossFileCallEdges(_, _)
CrossFileCallEdges(all, k) ==
    IF k > Len(all) THEN <<>>
    ELSE LET ms == Sorted(all[k].fn.modules)
         IN  [ i \in 1..Len(ms) |->
                 [caller |-> <<all[k].cls, all[k].fn.name>>, module |-> ms[i]] ]
             \o CrossFileCallEdges(all, k + 1)

\* modules_called of _compute_call_graph_metrics
ModulesCalled(f) ==
    LET all == AllFunctions(f)
    IN  UNION {all[k].fn.modules : k \in 1..Len(all)}

\* _get_vcs_metrics: no repository, a failed or timed-out git: only
\* repo_available; a file without commits: zeros; else the history's figures
GetVcsMetrics(f) ==
    IF f.git.outcome \in {"no_git", "timeout", "not_a_repo", "log_failed"}
      THEN [repo_available |-> FALSE]
    ELSE IF f.git.commits = 0
      THEN [ repo_available |-> TRUE, NR |-> 0, lines_added |-> 0,
             lines_deleted |-> 0, num_authors |-> 0, file_age_days |-> 0,
             commit_bursts |-> 0, coupled_file_changes |-> 0,
             top_coupled_files |-> 0 ]
    ELSE [ repo_available       |-> TRUE,
           NR                   |-> f.git.commits,
           lines_added          |-> f.git.lines_added,
           lines_deleted        |-> f.git.lines_deleted,
           num_authors          |-> f.git.num_authors,
           file_age_days        |-> f.git.file_age_days,
           commit_bursts        |-> f.git.commit_bursts,
           coupled_file_changes |-> f.git.co_changed,
           top_coupled_files    |-> IF f.git.co_changed < 10
                                      THEN f.git.co_changed ELSE 10,
           commit_messages      |-> f.git.commits ]

\* mutant: the lines of the tool are counted whether or not it could be run
Pep8Violations_NoFallback(f) ==
    [ count     |-> f.linter.issues,
      examples  |-> IF f.linter.issues < 20 THEN f.linter.issues ELSE 20,
      used_tool |-> TRUE ]

\* _pep8_violations: pycodestyle's lines (at most 500), or the count of the
\* heuristics when the tool cannot be run or times out
Pep8Violations(f) ==
    LET n == IF f.linter.outcome = "ran"
               THEN (IF f.linter.issues < 500 THEN f.linter.issues ELSE 500)
               ELSE f.linter.heuristic
    IN  [ count     |-> n,
          examples  |-> IF n < 20 THEN n ELSE 20,
          used_tool |-> f.linter.outcome = "ran" ]

\* the entries c of oo_metrics["classes"] the summary lists as proxies
IsGodClassProxy(c) ==
    \/ Get(c, "methods", 0) > 20 /\ Get(c, "wmc", 0) > 50
    \/ Get(c, "tna", 0) > 30 /\ Get(c, "methods", 0) > 15

RECURSIVE GodClassProxies(_, _)
GodClassProxies(classes, k) ==
    IF k > Len(classes) THEN <<>>
    ELSE (IF IsGodClassProxy(classes[k])
            THEN << [ name    |-> Get(classes[k], "name", None),
                      methods |-> Get(classes[k], "methods", None),
                      wmc     |-> Get(classes[k], "wmc", None),
                      tna     |-> Get(classes[k], "tna", None) ] >>
            ELSE <<>>)
         \o GodClassProxies(classes, k + 1)

\* mutant: the history fields copied only when the history has them
VcsFields_OnlyPresent(vcs) ==
    [ k \in {"lines_added", "lines_deleted", "num_authors", "file_age_days",
             "commit_bursts", "coupled_file_changes"} \cap DOMAIN vcs
        |-> vcs[k] ]

\* mutant: a key the history lacks reads as 0
VcsFields_ZeroDefault(vcs) ==
    [ k \in {"lines_added", "lines_deleted", "num_authors", "file_age_days",
             "commit_bursts", "coupled_file_changes"}
        |-> IF k \in DOMAIN vcs THEN vcs[k] ELSE 0 ]

\* lines 930-936: vcs.get(k), None for a key the history lacks
VcsFields(vcs) ==
    [ lines_added          |-> Get(vcs, "lines_added", None),
      lines_deleted        |-> Get(vcs, "lines_deleted", None),
      num_authors          |-> Get(vcs, "num_authors", None),
      file_age_days        |-> Get(vcs, "file_age_days", None),
      commit_bursts        |-> Get(vcs, "commit_bursts", None),
      coupled_file_changes |-> Get(vcs, "coupled_file_changes", None) ]

\* _get_numerical_summary
NumericalSummary(f) ==
    LET size      == SizeMetrics(f)
        structure == StructureMetrics(f)
        oo        == ObjectOrientedMetrics(f)
        vcs       == GetVcsMetrics(f)
        pep8      == Pep8Violations(f)
        funcs     == FunctionMetrics(f)
        classes   == Get(oo, "classes", <<>>)
        LineCount(c) == Get(c, "line_count", 0)
        lines_per_function == {funcs[k].loc : k \in 1..Len(funcs)} \ {0}
        counted   == {k \in 1..Len(funcs) : funcs[k].loc > 0}
        lines_per_class == {k \in 1..Len(classes) : LineCount(classes[k]) > 0}
    IN  [ file_path          |-> f.path,
          lines_of_code      |-> size.LOC,
          source_lines       |-> size.SLOC,
          comment_lines      |-> size.CLOC,
          comment_percentage |->
              IF size.LOC > 0 THEN Round(100 * size.CLOC, size.LOC, 10) ELSE 0,
          classes            |-> structure.classes,
          functions          |-> structure.functions,
          methods            |-> Get(oo, "total_methods", 0),
          average_cyclomatic_complexity |-> AverageCyclomaticComplexity(f),
          max_nesting_level  |-> f.other.max_nesting_level,
          nesting_variance   |-> f.other.nesting_variance,
          decision_density   |->
              Round(TotalControlStructures(f), Max(1, size.SLOC), 10000),
          boolean_expression_avg_terms |-> f.other.boolean_expression_avg_terms,
          max_intra_file_call_depth |-> f.other.max_intra_file_call_depth,
          call_graph_density |-> f.other.call_graph_density,
          inter_file_coupling |-> Cardinality(ModulesCalled(f)),
          cross_file_call_edges |-> CrossFileCallEdges(AllFunctions(f), 1),
          attribute_mutations_outside_init |->
              f.other.attribute_mutations_outside_init,
          external_vs_internal_field_access_ratio |->
              Round(Sum([k \in 1..Len(funcs) |-> funcs[k].external_attr_access]),
                    Max(1, Sum([k \in 1..Len(funcs) |->
                                   funcs[k].internal_attr_access])), 1000),
          max_lines_per_function |-> MaxOf(lines_per_function),
          mean_lines_per_function |->
              IF counted = {} THEN 0
              ELSE Round(Sum([k \in 1..Len(funcs) |-> funcs[k].loc]),
                         Cardinality(counted), 100),
          max_lines_per_class |->
              MaxOf({LineCount(classes[k]) : k \in lines_per_class}),
          mean_lines_per_class |->
              IF lines_per_class = {} THEN 0
              ELSE Round(Sum([k \in 1..Len(classes) |-> LineCount(classes[k])]),
                         Cardinality(lines_per_class), 100),
          globals_declared   |-> f.other.globals_declared,
          global_usages_total |-> f.other.global_usages_total,
          max_cyclomatic_ratio |->
              MaxOf({Round(funcs[k].cyclomatic_complexity,
                           Max(1, funcs[k].loc), 1000) : k \in 1..Len(funcs)}),
          mean_cyclomatic_ratio |-> f.other.mean_cyclomatic_ratio,
          mean_param_entropy |-> f.other.mean_param_entropy,
          abbreviation_density |-> f.other.abbreviation_density,
          comment_code_mismatch_score |-> f.other.comment_code_mismatch_score,
          todo_fixme_count   |-> f.other.todo_fixme_count,
          todo_fixme_semantic_density |-> f.other.todo_density,
          halstead_volume    |-> f.other.halstead_volume,
          halstead_effort    |-> f.other.halstead_effort,
          halstead_difficulty |-> f.other.halstead_difficulty,
          halstead_estimated_bugs |-> f.other.halstead_estimated_bugs,
          avg_line_length    |-> f.other.avg_line_length,
          max_line_length    |-> f.other.max_line_length,
          percent_lines_over_80 |-> f.other.percent_lines_over_80,
          pep8_violations    |-> pep8.count,
          pep8_examples      |-> pep8.examples,
          indentation_irregularity |-> f.other.indentation_irregularity,
          test_files_found   |-> f.other.test_files_found,
          test_lines         |-> f.other.test_lines,
          test_function_count |-> f.other.test_function_count,
          unit_test_presence |-> f.other.unit_test_presence,
          test_to_source_ratio |->
              Round(f.other.test_lines, Max(1, size.SLOC), 1000),
          semantic_todo_density |-> f.other.todo_density,
          vcs_available      |-> Get(vcs, "repo_available", FALSE),
          vcs_top_coupled    |-> Get(vcs, "top_coupled_files", None),
          average_methods_per_class |->
              IF "total_methods" \in DOMAIN oo
                THEN Round(oo.total_methods, oo.total_classes, 100) ELSE 0,
          classes_with_inheritance |-> Get(oo, "classes_with_inheritance", 0),
          lazy_class_indicator |->
              \E k \in 1..Len(classes) : Get(classes[k], "lazy_ratio", 0) > 3,
          god_class_proxies  |-> GodClassProxies(classes, 1),
          long_method_indicator |->
              \E k \in 1..Len(funcs) :
                  funcs[k].loc > 75 \/ funcs[k].cyclomatic_complexity > 15,
          large_parameter_list_indicator |->
              \E k \in 1..Len(funcs) : funcs[k].args_count > 6,
          documentation_coverage |-> f.other.documentation_coverage,
          total_imports      |-> f.other.total_imports,
          maintainability_score |-> f.other.maintainability_score ]
        @@ VcsFields(vcs)

\* the keys of the dict literal of _get_numerical_summary
SummaryKeys ==
    { "file_path", "lines_of_code", "source_lines", "comment_lines",
      "comment_percentage", "classes", "functions", "methods",
      "average_cyclomatic_complexity", "max_nesting_level", "nesting_variance",
      "decision_density", "boolean_expression_avg_terms",
      "max_intra_file_call_depth", "call_graph_density", "inter_file_coupling",
      "cross_file_call_edges", "attribute_mutations_outside_init",
      "external_vs_internal_field_access_ratio", "max_lines_per_function",
      "mean_lines_per_function", "max_lines_per_class", "mean_lines_per_class",
      "globals_declared", "global_usages_total", "max_cyclomatic_ratio",
      "mean_cyclomatic_ratio", "mean_param_entropy", "abbreviation_density",
      "comment_code_mismatch_score", "todo_fixme_count",
      "todo_fixme_semantic_density", "halstead_volume", "halstead_effort",
      "halstead_difficulty", "halstead_estimated_bugs", "avg_line_length",
      "max_line_length", "percent_lines_over_80", "pep8_violations",
      "pep8_examples", "indentation_irregularity", "test_files_found",
      "test_lines", "test_function_count", "unit_test_presence",
      "test_to_source_ratio", "semantic_todo_density", "vcs_available",
      "lines_added", "lines_deleted", "num_authors", "file_age_days",
      "commit_bursts", "coupled_file_changes", "vcs_top_coupled",
      "average_methods_per_class", "classes_with_inheritance",
      "lazy_class_indicator", "god_class_proxies", "long_method_indicator",
      "large_parameter_list_indicator", "documentation_coverage",
      "total_imports", "maintainability_score" }

\* ------------------------------- smell_detector.py: detect_smells_in_records
\* the column f"y_{smell_name}" of each smell
LabelKey ==
    [ LongMethod         |-> "y_LongMethod",
      LargeParameterList |-> "y_LargeParameterList",
      GodClass           |-> "y_GodClass",
      LazyClass          |-> "y_LazyClass",
      SpaghettiCode      |-> "y_SpaghettiCode",
      PoorDocumentation  |-> "y_PoorDocumentation",
      MisleadingComments |-> "y_MisleadingComments",
      GlobalStateAbuse   |-> "y_GlobalStateAbuse",
      FeatureEnvy        |-> "y_FeatureEnvy",
      ShotgunSurgery     |-> "y_ShotgunSurgery",
      FormattingIssues   |-> "y_FormattingIssues",
      UntestedCode       |-> "y_UntestedCode",
      UnstableModule     |-> "y_UnstableModule" ]

LabelColumns == {LabelKey[n] : n \in DOMAIN SMELL_INDEX}

SmellOf(column) == CHOOSE n \in DOMAIN SMELL_INDEX : LabelKey[n] = column

\* mutant: a record whose detection raises is emitted without label columns
AnnotateRecord_Unlabelled(r) ==
    LET d == DetectSmellsFromSummary(r)
        y == SmellsToBinary(d.smells)
    IN  IF d.raised
          THEN [smells |-> <<>>] @@ r
          ELSE [smells |-> d.smells]
                 @@ [c \in LabelColumns |-> y[SMELL_INDEX[SmellOf(c)]]] @@ r

\* one pass of the loop: the copy of r with its findings and label columns,
\* or with no finding and labels 0 when the detection raises
AnnotateRecord(r) ==
    LET d == DetectSmellsFromSummary(r)
        y == SmellsToBinary(d.smells)
    IN  IF d.raised
          THEN [smells |-> <<>>] @@ [c \in LabelColumns |-> 0] @@ r
          ELSE [smells |-> d.smells]
                 @@ [c \in LabelColumns |-> y[SMELL_INDEX[SmellOf(c)]]] @@ r

DetectSmellsInRecords(records) ==
    [k \in 1..Len(records) |-> AnnotateRecord(records[k])]

\* ------------------------------------------------------ analyzer.py: batches
\* the values of the extractors not modelled, as an empty file has them
OtherMetrics ==
    [ max_nesting_level |-> 0, nesting_variance |-> 0,
      boolean_expression_avg_terms |-> 0, max_intra_file_call_depth |-> 0,
      call_graph_density |-> 0, attribute_mutations_outside_init |-> 0,
      globals_declared |-> 0, global_usages_total |-> 0,
      mean_cyclomatic_ratio |-> 0, mean_param_entropy |-> 0,
      abbreviation_density |-> 0, comment_code_mismatch_score |-> 0,
      todo_fixme_count |-> 0, todo_density |-> 0, halstead_volume |-> 0,
      halstead_effort |-> 0, halstead_difficulty |-> 0,
      halstead_estimated_bugs |-> 0, avg_line_length |-> 0,
      max_line_length |-> 0, percent_lines_over_80 |-> 0,
      indentation_irregularity |->
          [irregularity_score |-> 0, tab_lines |-> 0, mixed_tabs |-> 0],
      test_files_found |-> 0, test_lines |-> 0, test_function_count |-> 0,
      unit_test_presence |-> FALSE, documentation_coverage |-> 0,
      total_imports |-> 0, maintainability_score |-> 100 * Scale ]

\* what git answers: outcome is no_git (the command cannot be run), timeout,
\* not_a_repo, log_failed, or history with the figures of the file's commits
Git(outcome, commits) ==
    [ outcome |-> outcome, commits |-> commits,
      lines_added |-> 15 * commits, lines_deleted |-> 5 * commits,
      num_authors |-> IF commits > 1 THEN 2 ELSE commits,
      file_age_days |-> 4 * commits,
      commit_bursts |-> IF commits > 6 THEN 6 ELSE commits,
      co_changed |-> IF commits > 3 THEN 3 ELSE commits ]

\* what the linter answers: outcome is absent (the command cannot be run),
\* timeout, or ran with the number of lines it printed; heuristic is the
\* number of over-long lines and trailing blanks the file has
Linter(outcome, issues, heuristic) ==
    [outcome |-> outcome, issues |-> issues, heuristic |-> heuristic]

EmptyFile ==
    [ path |-> "empty.py", py |-> TRUE, parses |-> TRUE,
      LOC |-> 1, SLOC |-> 0, CLOC |-> 0, module_controls |-> 0,
      classes |-> <<>>, nested_classes |-> 0, funcs |-> <<>>,
      git |-> Git("not_a_repo", 0), linter |-> Linter("absent", 0, 0),
      other |-> OtherMetrics ]

MethodNames ==
    << "m01", "m02", "m03", "m04", "m05", "m06", "m07", "m08", "m09", "m10",
       "m11", "m12", "m13", "m14", "m15", "m16", "m17", "m18", "m19", "m20",
       "m21", "m22", "m23", "m24", "m25" >>

\* n methods without attributes, the first branchy of them with three
\* control structures and two other decisions each
Methods(n, branchy, async) ==
    [ i \in 1..n |->
        [PlainFunction EXCEPT !.name = MethodNames[i],
                              !.is_async = async,
                              !.loc = 20,
                              !.controls = IF i <= branchy THEN 3 ELSE 0,
                              !.others = IF i <= branchy THEN 2 ELSE 0] ]

\* a file of one class: n methods of 20 lines after 40 lines of docstring
\* and of assignments to the names fields
ClassFile(path, n, fields, branchy, async) ==
    [ EmptyFile EXCEPT !.path = path, !.LOC = 20 * n + 43, !.SLOC = 20 * n + 5,
        !.classes = << [ name |-> "A", class_fields |-> fields, dit |-> 0,
                         assigns |-> Cardinality(fields),
                         line_count |-> 20 * n + 40,
                         methods |-> Methods(n, branchy, async) ] >> ]

\* a file of one function of loc lines
FunctionFile(path, async, loc, modules) ==
    [ EmptyFile EXCEPT !.path = path, !.LOC = loc + 10, !.SLOC = loc, !.CLOC = 5,
        !.funcs = << [PlainFunction EXCEPT !.is_async = async, !.loc = loc,
                                           !.controls = 2, !.ext_attr = 3,
                                           !.modules = modules] >> ]

\* the contents a file of a batch may have
Contents ==
    { EmptyFile,
      ClassFile("big.py", 25, {}, 7, FALSE),
      ClassFile("big_async.py", 25, {}, 7, TRUE),
      ClassFile("one.py", 1, {"a", "b", "c", "d"}, 0, FALSE),
      FunctionFile("script.py", FALSE, 20, {}),
      FunctionFile("coro.py", TRUE, 60, {}),
      [FunctionFile("client.py", FALSE, 20, {1, 2})
          EXCEPT !.linter = Linter("absent", 0, 3)] }

\* the files: outside a repository, some with a history, and a file for each
\* other answer of git and of the linter
Files ==
    Contents
    \cup { [c EXCEPT !.git = Git("history", 8)] :
             c \in { ClassFile("big.py", 25, {}, 7, FALSE),
                     ClassFile("big_async.py", 25, {}, 7, TRUE),
                     ClassFile("one.py", 1, {"a", "b", "c", "d"}, 0, FALSE),
                     FunctionFile("coro.py", TRUE, 60, {}) } }
    \cup { [EmptyFile EXCEPT !.git = g] :
             g \in {Git("no_git", 0), Git("timeout", 0), Git("log_failed", 0),
                    Git("history", 0)} }
    \cup { [FunctionFile("client.py", FALSE, 20, {1, 2}) EXCEPT !.linter = l] :
             l \in {Linter("timeout", 0, 3), Linter("ran", 2, 3)} }
    \cup { [EmptyFile EXCEPT !.path = "broken.py", !.parses = FALSE],
           [EmptyFile EXCEPT !.path = "notes.txt", !.py = FALSE] }

BInit ==
    /\ b_pc = "walk"
    /\ batch \in UNION {[1..n -> Files] : n \in 0..MaxBatch}
    /\ pos = 0
    /\ total = 0
    /\ errors = 0
    /\ results = <<>>
    /\ origin = <<>>
    /\ annotated = <<>>

\* a name that does not end in .py: continue
SkipFile ==
    /\ b_pc = "walk"
    /\ pos < Len(batch)
    /\ ~batch[pos + 1].py
    /\ pos' = pos + 1
    /\ UNCHANGED <<b_pc, batch, total, errors, results, origin, annotated>>
    /\ BFrame

\* mutant: one analyzer serves every file and keeps the lines it has read
Analyze_SharedAnalyzer(f, earlier) ==
    [numerical_summary |->
        [NumericalSummary(f) EXCEPT !.lines_of_code =
            @ + SumFrom([k \in 1..Len(earlier) |-> earlier[k].lines_of_code], 1)]]

\* analyzer = PythonCodeAnalyzer(str(fp)); metrics = analyzer.analyze(): the
\* analyzer is new, with no tree, content or lines, whatever the records
\* made earlier
Analyze(f, earlier) == [numerical_summary |-> NumericalSummary(f)]

\* analyze() returns: its numerical summary, which has no file_info to
\* remove, is appended
AnalyzeFile ==
    /\ b_pc = "walk"
    /\ pos < Len(batch)
    /\ batch[pos + 1].py
    /\ batch[pos + 1].parses
    /\ LET metrics == Analyze(batch[pos + 1], results)
           m == Get(metrics, "numerical_summary", metrics)
       IN  results' = Append(results, IF "file_info" \in DOMAIN m
                                        THEN DropKey(m, "file_info") ELSE m)
    /\ origin' = Append(origin, pos + 1)
    /\ total' = total + 1
    /\ pos' = pos + 1
    /\ UNCHANGED <<b_pc, batch, errors, annotated>>
    /\ BFrame

\* mutant: the exception leaves the loop, the remaining files are not visited
VisitedAfterError_Abort(p) == Len(batch)

\* except Exception: of the files, p were visited before the failing one; the
\* loop goes on with the file after it
VisitedAfterError(p) == p + 1

\* mutant: the failure is not counted
CountError_Lost(e) == e

\* errors += 1
CountError(e) == e + 1

\* analyze() raises (the file cannot be read, parsed or measured)
AnalyzeFails ==
    /\ b_pc = "walk"
    /\ pos < Len(batch)
    /\ batch[pos + 1].py
    /\ ~batch[pos + 1].parses
    /\ total' = total + 1
    /\ errors' = CountError(errors)
    /\ pos' = VisitedAfterError(pos)
    /\ UNCHANGED <<b_pc, batch, results, origin, annotated>>
    /\ BFrame

\* the walk is over: analyzing returns results
WalkDone ==
    /\ b_pc = "walk"
    /\ pos = Len(batch)
    /\ b_pc' = "analyzed"
    /\ UNCHANGED <<batch, pos, total, errors, results, origin, annotated>>
    /\ BFrame

\* mutant: rec is the record itself, not a copy of it
InputAfterLabeling_Aliased(records) == DetectSmellsInRecords(records)

\* rec = dict(r): the loop writes to a copy, and the detector only reads its
\* argument, so the list handed in and its records stay as they were
InputAfterLabeling(records) == records

\* Analyzer.labeling(results)
Labeling ==
    /\ b_pc = "analyzed"
    /\ annotated' = DetectSmellsInRecords(results)
    /\ results' = InputAfterLabeling(results)
    /\ b_pc' = "labeled"
    /\ UNCHANGED <<batch, pos, total, errors, origin>>
    /\ BFrame

BNext == SkipFile \/ AnalyzeFile \/ AnalyzeFails \/ WalkDone \/ Labeling

\* ------------------ _compute_call_graph_metrics: the graph (lines 589-665)
\* a qualified name is its list of dotted segments: f is <<"f">> and A.m is
\* <<"A", "m">>; a call string of _collect_calls is the same, so os.path.join
\* is <<"os", "path", "join">>
QualNames == {<<"f">>, <<"A", "m">>}
CallNames ==
    {<<"f">>, <<"print">>, <<"self", "m">>, <<"A", "m">>, <<"os", "path", "join">>}

\* name_to_node: a dict keyed by qualified name, so the last definition of a
\* name is the one kept; here the calls _collect_calls finds in it
NameToNode(funcs) ==
    [q \in {funcs[i].q : i \in 1..Len(funcs)} |->
        LET last == CHOOSE k \in 1..Len(funcs) :
                        /\ funcs[k].q = q
                        /\ \A j \in (k + 1)..Len(funcs) : funcs[j].q # q
        IN  funcs[last].calls]

\* class_of.get(qname): "" for a function outside a class
ClassOf(qname) == IF Len(qname) = 2 THEN qname[1] ELSE ""

\* the target a call string resolves to, <<>> for none (lines 631-650)
ResolveTarget(qname, c, simple_names) ==
    IF Len(c) > 1
    THEN IF c[1] = "self"
         THEN IF ClassOf(qname) # "" /\ <<ClassOf(qname), c[Len(c)]>> \in simple_names
              THEN <<ClassOf(qname), c[Len(c)]>>
              ELSE <<>>
         ELSE IF <<c[1], c[Len(c)]>> \in simple_names
              THEN <<c[1], c[Len(c)]>>
              ELSE <<>>
    ELSE IF c \in simple_names THEN c ELSE <<>>

\* what a call string adds to cross_calls[qname] (lines 643-646)
CrossModule(qname, c, simple_names) ==
    IF Len(c) > 1 /\ c[1] # "self" /\ <<c[1], c[Len(c)]>> \notin simple_names
    THEN {c[1]}
    ELSE {}

\* edges: for each name the set of its targets
CallEdges(funcs) ==
    LET node == NameToNode(funcs)
    IN  [q \in DOMAIN node |->
            {ResolveTarget(q, c, DOMAIN node) : c \in node[q]} \ {<<>>}]

\* cross_calls
CrossCalls(funcs) ==
    LET node == NameToNode(funcs)
    IN  [q \in DOMAIN node |->
            UNION {CrossModule(q, c, DOMAIN node) : c \in node[q]}]

\* mutant: every definition counts, a repeated name too
NodeCount_WithDuplicates(funcs) == Len(funcs)

\* N = len(names)
NodeCount(funcs) == Cardinality(DOMAIN NameToNode(funcs))

\* E = sum(len(s) for s in edges.values())
RECURSIVE EdgeCount(_, _)
EdgeCount(e, todo) ==
    IF todo = {} THEN 0
    ELSE LET q == CHOOSE x \in todo : TRUE
         IN  Cardinality(e[q]) + EdgeCount(e, todo \ {q})

\* density = E / (N * (N - 1)) if N > 1 else 0.0
Density(N, E) == IF N > 1 THEN Real(E, N * (N - 1)) ELSE 0

\* fan_out = {n: len(edges.get(n, [])) for n in names}
FanOut(e) == [n \in DOMAIN e |-> Cardinality(e[n])]

\* fan_in: one for every pair (caller, target)
FanIn(e) == [n \in DOMAIN e |-> Cardinality({u \in DOMAIN e : n \in e[u]})]

\* the dict returned (depth apart, which has its own steps above)
CallGraphMetrics(funcs) ==
    LET e == CallEdges(funcs)
        N == NodeCount(funcs)
        E == EdgeCount(e, DOMAIN e)
    IN  [nodes |-> N,
         edges |-> E,
         density |-> Density(N, E),
         fan_in |-> FanIn(e),
         fan_out |-> FanOut(e),
         call_edges |-> e,
         cross_module_calls |-> CrossCalls(funcs)]

CbInit ==
    /\ cb_pc = "parsed"
    /\ cb_funcs \in UNION {[1..n -> [q : QualNames, calls : SUBSET CallNames]] :
                              n \in 0..MaxFuncs}
    /\ cb_out = <<>>

BuildCallGraph ==
    /\ cb_pc = "parsed"
    /\ cb_out' = CallGraphMetrics(cb_funcs)
    /\ cb_pc' = "built"
    /\ UNCHANGED cb_funcs
    /\ CbFrame

CbNext == BuildCallGraph

\* ------------------ _get_complexity_metrics: the visitor (lines 135-162)
control_types == {"If", "For", "While", "Try", "With", "IfExp"}

\* the node classes whose children start again at depth 0
ScopeKinds == {"FunctionDef", "AsyncFunctionDef", "ClassDef"}

\* node classes of the module trees: two control structures, the
\* definitions, and a statement the visitor passes over
NestKinds == {"If", "Try", "FunctionDef", "ClassDef", "Assign"}

\* depth after the node itself is counted
DepthAt(t, node, depth) ==
    IF t.kind[node] \in control_types THEN depth + 1 ELSE depth

\* mutant: a definition hands its own depth down
ChildDepth_NoReset(t, node, depth) == depth

\* child_depth: 0 below a function or class other than the tree itself
ChildDepth(t, node, depth) ==
    IF t.kind[node] \in ScopeKinds /\ node # 1 THEN 0 ELSE depth

\* visit(node, depth): the largest depth recorded in the subtree of node
RECURSIVE Visit(_, _, _)
Visit(t, node, depth) ==
    LET here == DepthAt(t, node, depth)
        kids == ChildNodes(t, node)
        below == {Visit(t, kids[i], ChildDepth(t, node, here)) : i \in 1..Len(kids)}
    IN  MaxOf(below \cup
              (IF t.kind[node] \in control_types THEN {here} ELSE {}))

\* the module trees of n nodes: node 1 the Module
NestTrees(n) ==
    { [n |-> n, parent |-> p, kind |-> [i \in 1..n |-> IF i = 1 THEN "Module" ELSE k[i]]] :
        p \in ParentMaps(n), k \in [2..n -> NestKinds] }

NsInit ==
    /\ ns_pc = "parsed"
    /\ \E n \in 1..MaxNestNodes : ns_tree \in NestTrees(n)
    /\ ns_out = 0

\* visit(self.tree, 0)
MeasureNesting ==
    /\ ns_pc = "parsed"
    /\ ns_out' = Visit(ns_tree, 1, 0)
    /\ ns_pc' = "measured"
    /\ UNCHANGED ns_tree
    /\ NsFrame

NsNext == MeasureNesting

\* ------------- _get_object_oriented_metrics: coupling (lines 476-556)
\* method_calls[name]: a dict keyed by method name, so the calls of the last
\* method of that name; a call string is kept by its first segment
MethodCalls(methods) ==
    [nm \in {methods[i].name : i \in 1..Len(methods)} |->
        LET last == CHOOSE k \in 1..Len(methods) :
                        /\ methods[k].name = nm
                        /\ \A j \in (k + 1)..Len(methods) : methods[j].name # nm
        IN  methods[last].calls]

\* cbo_set: the bases and the call roots that are other classes of the file
CboSet(c, file) ==
    ((c.bases \cap file) \ {c.name})
        \cup ((UNION {MethodCalls(c.methods)[nm] : nm \in DOMAIN MethodCalls(c.methods)}
                \cap file) \ {c.name})

\* cbo = len(cbo_set)
Cbo(c, file) == Cardinality(CboSet(c, file))

\* the files: classes A, A and B, or A, B and C; the class measured is A,
\* with bases by name, and methods m and x that call into A, B or a module
CoInit ==
    /\ co_pc = "parsed"
    /\ co_file \in {{"A"}, {"A", "B"}, {"A", "B", "C"}}
    /\ co_cls \in [name : {"A"},
                   bases : SUBSET {"A", "B", "C"},
                   methods : UNION {[1..n -> [name : {"m", "x"},
                                              calls : SUBSET {"A", "B", "os"}]] :
                                       n \in 0..MaxFuncs}]
    /\ co_out = 0

MeasureCoupling ==
    /\ co_pc = "parsed"
    /\ co_out' = Cbo(co_cls, co_file)
    /\ co_pc' = "measured"
    /\ UNCHANGED <<co_file, co_cls>>
    /\ CoFrame

CoNext == MeasureCoupling

\* ----------------------------- _get_size_metrics: the lines (lines 70-133)
\* what line.strip() is: empty, starting with '#', or anything else
LineTexts == {"blank", "comment", "code"}

\* sorted(doc_ranges): by start, then by end
RECURSIVE SortedRanges(_)
SortedRanges(S) ==
    IF S = {} THEN <<>>
    ELSE LET least == CHOOSE r \in S : \A x \in S :
                          r[1] < x[1] \/ (r[1] = x[1] /\ r[2] <= x[2])
         IN  <<least>> \o SortedRanges(S \ {least})

\* the merge loop: a range that starts after the last merged one ends, and
\* not on the line next to it, opens a new one; any other extends the last
RECURSIVE MergeRanges(_, _, _)
MergeRanges(q, k, merged) ==
    IF k > Len(q) THEN merged
    ELSE LET s == q[k][1]
             e == q[k][2]
             n == Len(merged)
         IN  IF n = 0 \/ s > merged[n][2] + 1
             THEN MergeRanges(q, k + 1, Append(merged, <<s, e>>))
             ELSE MergeRanges(q, k + 1,
                     [merged EXCEPT ![n] = <<merged[n][1], Max(merged[n][2], e)>>])

\* doc_lines_set: the indexes of the merged ranges that are lines of the file
DocLinesSet(merged, total_lines) ==
    {i \in 0..(total_lines - 1) :
        \E k \in 1..Len(merged) : merged[k][1] <= i /\ i <= merged[k][2]}

\* mutant: a line of a docstring goes on to be classified by its text
CountedByText_NoContinue(lines, idx, doc, text) == lines[idx + 1] = text

\* the line at idx reaches the branch of the chain that counts text
CountedByText(lines, idx, doc, text) == idx \notin doc /\ lines[idx + 1] = text

\* the dict returned
GetSizeMetrics(lines, ranges) ==
    LET total_lines == Len(lines)
        doc == DocLinesSet(MergeRanges(SortedRanges(ranges), 1, <<>>), total_lines)
        counted(text) ==
            Cardinality({i \in 0..(total_lines - 1) : CountedByText(lines, i, doc, text)})
    IN  [LOC |-> total_lines,
         SLOC |-> counted("code"),
         CLOC |-> counted("comment"),
         DLOC |-> Cardinality({i \in 0..(total_lines - 1) : i \in doc}),
         blank_lines |-> counted("blank")]

\* the docstring ranges a file of n lines can have
LineRanges(n) == {r \in (0..(n - 1)) \X (0..(n - 1)) : r[1] <= r[2]}

SzInit ==
    /\ sz_pc = "parsed"
    /\ \E n \in 1..MaxLines :
          /\ sz_lines \in [1..n -> LineTexts]
          /\ sz_ranges \in SUBSET LineRanges(n)
    /\ sz_out = <<>>

MeasureSize ==
    /\ sz_pc = "parsed"
    /\ sz_out' = GetSizeMetrics(sz_lines, sz_ranges)
    /\ sz_pc' = "measured"
    /\ UNCHANGED <<sz_lines, sz_ranges>>
    /\ SzFrame

SzNext == MeasureSize

\* ----------------------- _get_vcs_metrics: commit bursts (lines 1265-1281)
\* instants, in half days from the first one: around one week (14, 15, 16)
\* and around two
Stamps == {0, 1, 14, 15, 16, 30}

\* dates = [c["date"] for c in commits if c["date"] is not None]
RECURSIVE Dated(_)
Dated(q) ==
    IF q = <<>> THEN <<>>
    ELSE (IF Head(q) = None THEN <<>> ELSE <<Head(q)>>) \o Dated(Tail(q))

\* sorted(dates): equal dates stay, each in its place
RECURSIVE SortedDates(_)
SortedDates(q) ==
    IF q = <<>> THEN <<>>
    ELSE LET k == CHOOSE i \in 1..Len(q) : \A j \in 1..Len(q) : q[i] <= q[j]
         IN  <<q[k]>> \o SortedDates(SubSeq(q, 1, k - 1) \o SubSeq(q, k + 1, Len(q)))

\* (b - a).days: the whole days of the difference, the rest dropped
DaysBetween(a, b) == (b - a) \div 2

\* the while loop: the dates from position j on that follow d within the window
RECURSIVE CountFrom(_, _, _)
CountFrom(q, d, j) ==
    IF j <= Len(q) /\ DaysBetween(d, q[j]) <= WindowDays
    THEN 1 + CountFrom(q, d, j + 1)
    ELSE 0

\* max_in_window
CommitBursts(dates) ==
    LET q == SortedDates(dates)
    IN  MaxOf({1 + CountFrom(q, q[idx], idx + 1) : idx \in 1..Len(q)})

BrInit ==
    /\ br_pc = "logged"
    /\ br_dates \in UNION {[1..n -> Stamps \cup {None}] : n \in 1..MaxCommits}
    /\ br_out = 0

MeasureBursts ==
    /\ br_pc = "logged"
    /\ br_out' = CommitBursts(Dated(br_dates))
    /\ br_pc' = "measured"
    /\ UNCHANGED br_dates
    /\ BrFrame

BrNext == MeasureBursts

\* -------------------------------------------------------- specifications
\* each part of the engine runs alone; the others stay as constructed
ClIdle ==
    /\ cl_pc = "off" /\ s_in = <<>> /\ f_in = <<>> /\ y_out = <<>>
    /\ s_out = [raised |-> FALSE, smells |-> <<>>]
AstIdle ==
    /\ ast_pc = "off" /\ cc_node = 0 /\ cc_val = 0
    /\ tree = [n |-> 0, parent |-> <<>>, kind |-> <<>>]
OoIdle ==
    /\ oo_pc = "off" /\ oo_out = <<>>
    /\ cls = [name |-> "A", class_fields |-> {}, methods |-> <<>>, dit |-> 0]
DitIdle ==
    /\ dit_pc = "off" /\ class_map = <<>> /\ dit_stack = <<>>
    /\ dit_seen = {} /\ dit_out = <<>>
CgIdle ==
    /\ cg_pc = "off" /\ names = 0 /\ edges = {} /\ cg_stack = <<>>
    /\ visited = {} /\ memo = <<>> /\ depths = <<>> /\ max_depth = 0

CbIdle ==
    /\ cb_pc = "off" /\ cb_funcs = <<>> /\ cb_out = <<>>

NsIdle ==
    /\ ns_pc = "off" /\ ns_out = 0
    /\ ns_tree = [n |-> 0, parent |-> <<>>, kind |-> <<>>]

CoIdle ==
    /\ co_pc = "off" /\ co_file = {} /\ co_out = 0
    /\ co_cls = [name |-> "A", bases |-> {}, methods |-> <<>>]

SzIdle ==
    /\ sz_pc = "off" /\ sz_lines = <<>> /\ sz_ranges = {} /\ sz_out = <<>>

BrIdle ==
    /\ br_pc = "off" /\ br_dates = <<>> /\ br_out = 0

BIdle ==
    /\ b_pc = "off" /\ batch = <<>> /\ pos = 0 /\ total = 0 /\ errors = 0
    /\ results = <<>> /\ origin = <<>> /\ annotated = <<>>

\* the rule-based classifier
SmellInit == ClInit /\ AstIdle /\ OoIdle /\ DitIdle /\ CgIdle /\ BIdle /\ CbIdle /\ NsIdle /\ CoIdle /\ SzIdle /\ BrIdle
SpecSmell == SmellInit /\ [][ClNext]_vars

\* cyclomatic complexity of the functions of a tree
TreeInit == AstInit /\ ClIdle /\ OoIdle /\ DitIdle /\ CgIdle /\ BIdle /\ CbIdle /\ NsIdle /\ CoIdle /\ SzIdle /\ BrIdle
SpecTree == TreeInit /\ [][AstNext]_vars

\* per-class metrics
ClassInit == OoInit /\ ClIdle /\ AstIdle /\ DitIdle /\ CgIdle /\ BIdle /\ CbIdle /\ NsIdle /\ CoIdle /\ SzIdle /\ BrIdle
SpecClass == ClassInit /\ [][OoNext]_vars

\* depth of inheritance: a sequential loop, which always takes its next step
InheritInit == DitInit /\ ClIdle /\ AstIdle /\ OoIdle /\ CgIdle /\ BIdle /\ CbIdle /\ NsIdle /\ CoIdle /\ SzIdle /\ BrIdle
SpecInherit == InheritInit /\ [][DitNext]_vars /\ WF_vars(DitNext)

\* maximum call depth: a sequential loop, which always takes its next step
CallGraphInit == CgInit /\ ClIdle /\ AstIdle /\ OoIdle /\ DitIdle /\ BIdle /\ CbIdle /\ NsIdle /\ CoIdle /\ SzIdle /\ BrIdle
SpecCallGraph == CallGraphInit /\ [][CgNext]_vars /\ WF_vars(CgNext)

\* the call graph of a file
CallBuildInit == CbInit /\ ClIdle /\ AstIdle /\ OoIdle /\ DitIdle /\ CgIdle /\ BIdle /\ NsIdle /\ CoIdle /\ SzIdle /\ BrIdle
SpecCallBuild == CallBuildInit /\ [][CbNext]_vars

\* the nesting depth of a module
NestingInit == NsInit /\ ClIdle /\ AstIdle /\ OoIdle /\ DitIdle /\ CgIdle /\ CbIdle /\ BIdle /\ CoIdle /\ SzIdle /\ BrIdle
SpecNesting == NestingInit /\ [][NsNext]_vars

\* the coupling of a class
CouplingInit == CoInit /\ ClIdle /\ AstIdle /\ OoIdle /\ DitIdle /\ CgIdle /\ CbIdle /\ NsIdle /\ BIdle /\ SzIdle /\ BrIdle
SpecCoupling == CouplingInit /\ [][CoNext]_vars

\* the line counts of a file
SizeInit == SzInit /\ ClIdle /\ AstIdle /\ OoIdle /\ DitIdle /\ CgIdle /\ CbIdle /\ NsIdle /\ CoIdle /\ BIdle /\ BrIdle
SpecSize == SizeInit /\ [][SzNext]_vars

\* the commit bursts of a log
BurstsInit == BrInit /\ ClIdle /\ AstIdle /\ OoIdle /\ DitIdle /\ CgIdle /\ CbIdle /\ NsIdle /\ CoIdle /\ SzIdle /\ BIdle
SpecBursts == BurstsInit /\ [][BrNext]_vars

\* a directory of files analysed, then labelled
BatchInit == BInit /\ ClIdle /\ AstIdle /\ OoIdle /\ DitIdle /\ CgIdle /\ CbIdle /\ NsIdle /\ CoIdle /\ SzIdle /\ BrIdle
SpecBatch == BatchInit /\ [][BNext]_vars

\* ----------------------------------------------------------------- claims
Reverse(q) == [i \in 1..Len(q) |-> q[Len(q) + 1 - i]]

\* C1: every record of a batch has the keys of the summary's dict literal,
\* so any two records of the batch have the same keys, whatever the files
\* contain and whether or not git and the linter answer
C1_SummaryKeysFixed ==
    /\ \A k \in 1..Len(results) : DOMAIN results[k] = SummaryKeys
    /\ \A i, j \in 1..Len(results) : DOMAIN results[i] = DOMAIN results[j]

\* a finished batch of an empty file outside version control and a file with
\* a class under version control
C1_Witness ==
    /\ b_pc = "analyzed"
    /\ Len(results) = 2
    /\ results[1].classes = 0 /\ results[1].functions = 0
    /\ ~results[1].vcs_available
    /\ results[2].classes > 0 /\ results[2].vcs_available

\* the files visited so far that analyze() accepts, and those it fails on
Analyzable == {i \in 1..pos : batch[i].py /\ batch[i].parses}
Failing == {i \in 1..pos : batch[i].py /\ ~batch[i].parses}

\* C11: a file on which analyze() raises is counted as an error and gets no
\* record, and the loop goes on: every step of the walk visits exactly the
\* next file, every visited file analyze() accepts has its record, and the
\* walk is left only at the end of the directory
C11_FailureSkipsOneFile ==
    /\ [](/\ \A i \in Analyzable : \E k \in 1..Len(origin) : origin[k] = i
          /\ \A i \in Failing : \A k \in 1..Len(origin) : origin[k] # i
          /\ errors = Cardinality(Failing)
          /\ (b_pc # "walk" => pos = Len(batch)))
    /\ [][b_pc = "walk" /\ pos < Len(batch) => pos' = pos + 1 /\ b_pc' = "walk"]_vars

\* a file that fails, then one that is analysed
C11_Witness ==
    /\ b_pc = "analyzed"
    /\ Len(batch) = 2
    /\ ~batch[1].parses /\ batch[1].py
    /\ errors = 1
    /\ origin = <<2>>

\* C12: scanned_files = errors + records at every point of the loop, and each
\* .py file visited gave exactly one of the two
C12_ScannedIsErrorsPlusRecords ==
    /\ total = errors + Len(results)
    /\ total = Cardinality({i \in 1..pos : batch[i].py})
    /\ Len(origin) = Len(results)
    /\ \A i \in 1..pos : batch[i].py =>
          Cardinality({k \in 1..Len(origin) : origin[k] = i})
              = (IF batch[i].parses THEN 1 ELSE 0)
    /\ errors = Cardinality(Failing)

\* inside the loop, after one error and one record
C12_Witness ==
    /\ b_pc = "walk"
    /\ pos = 2
    /\ errors = 1
    /\ Len(results) = 1

HistoryKeys ==
    { "lines_added", "lines_deleted", "num_authors", "file_age_days",
      "commit_bursts", "coupled_file_changes" }

C14_ExternalFailureDegrades ==
    \A i \in Analyzable :
        \E k \in 1..Len(results) :
            /\ origin[k] = i
            /\ DOMAIN results[k] = SummaryKeys
            /\ batch[i].git.outcome \in {"no_git", "timeout", "log_failed"} =>
                  /\ ~results[k].vcs_available
                  /\ results[k].vcs_top_coupled = None
            /\ batch[i].linter.outcome \in {"absent", "timeout"} =>
                  results[k].pep8_violations = batch[i].linter.heuristic

\* a file with three over-long lines whose linter timed out, and a file
\* whose git timed out
C14_Witness ==
    /\ Len(results) = 2
    /\ batch[origin[1]].linter.outcome = "timeout"
    /\ results[1].pep8_violations = 3
    /\ batch[origin[2]].git.outcome = "timeout"
    /\ ~results[2].vcs_available

\* C15: for a summary whose commit_bursts and lines_added are None the
\* classifier returns, and returns the findings of the same summary without
\* the two fields
C15_NullHistoryClassified ==
    (/\ cl_pc \in {"detected", "encoded"}
     /\ Get(s_in, "commit_bursts", 0) = None
     /\ Get(s_in, "lines_added", 0) = None)
        => /\ ~s_out.raised
           /\ s_out.smells =
                  SmellList(DropKey(DropKey(s_in, "commit_bursts"), "lines_added"))

\* C16: every record is emitted, with its own fields; one whose detection
\* raises has no finding and every label 0, and the records after it are
\* still classified; one classified without error has label 1 exactly for
\* the types of its findings
C16_RaisingRecordGetsZeroLabels ==
    b_pc = "labeled" =>
        /\ Len(annotated) = Len(results)
        /\ \A k \in 1..Len(results) :
              /\ \A key \in DOMAIN results[k] : annotated[k][key] = results[k][key]
              /\ "smells" \in DOMAIN annotated[k]
              /\ IF DetectRaises(results[k])
                    THEN /\ annotated[k].smells = <<>>
                         /\ \A n \in DOMAIN SMELL_INDEX :
                               Get(annotated[k], LabelKey[n], None) = 0
                    ELSE /\ annotated[k].smells = SmellList(results[k])
                         /\ \A n \in DOMAIN SMELL_INDEX :
                               Get(annotated[k], LabelKey[n], None) =
                                   (IF n \in Types(annotated[k].smells) THEN 1 ELSE 0)

\* a record whose detection raises, then one that gets a finding and its label
C16_Witness ==
    /\ b_pc = "labeled"
    /\ Len(annotated) = 2
    /\ DetectRaises(results[1])
    /\ annotated[1].y_UnstableModule = 0
    /\ ~DetectRaises(results[2])
    /\ annotated[2].smells # <<>>
    /\ annotated[2].y_UnstableModule = 1

\* C17: a summary the classifier returns findings for gets LongMethod exactly
\* when its longest function has more than 50 lines, or its largest
\* complexity/lines ratio is over 0.5, or its deepest nesting is over 4
C17_LongMethodIffAnyClause ==
    \A k \in 1..Len(results) :
        ~DetectRaises(results[k]) =>
            ("LongMethod" \in Types(DetectSmellsFromSummary(results[k]).smells)
               <=> \/ results[k].max_lines_per_function > 50
                   \/ results[k].max_cyclomatic_ratio > Real(1, 2)
                   \/ results[k].max_nesting_level > 4)

\* the mean of the line counts of the classes of file f, 0 without classes
MeanClassLines(f) ==
    LET cm == ClassMetrics(f)
    IN  IF Len(cm) = 0 THEN 0
        ELSE Round(Sum([k \in 1..Len(cm) |-> cm[k].line_count]), Len(cm), 100)

\* C18: mean_lines_per_class is the mean line count of the classes of the
\* file, and a file whose classes average 50 lines or more gets no LazyClass
C18_MeanClassLinesReported ==
    \A k \in 1..Len(results) :
        LET f == batch[origin[k]]
        IN  /\ results[k].mean_lines_per_class = MeanClassLines(f)
            /\ (MeanClassLines(f) >= Real(50, 1) /\ ~DetectRaises(results[k]))
                  => "LazyClass" \notin
                         Types(DetectSmellsFromSummary(results[k]).smells)

\* C19: lazy_class_indicator is true exactly when some class of the file has
\* more than 3 attributes per method (attributes / max(1, methods) > 3)
C19_LazyIndicatorIffRatioOver3 ==
    \A k \in 1..Len(results) :
        LET cm == ClassMetrics(batch[origin[k]])
        IN  results[k].lazy_class_indicator
              <=> \E c \in 1..Len(cm) :
                     cm[c].attributes > 3 * Max(1, cm[c].methods)

\* a record listing a class of 25 methods, WMC 60 and no attribute
ListsGodClass(r) ==
    \E k \in 1..Len(r.god_class_proxies) :
        /\ r.god_class_proxies[k].methods = 25
        /\ r.god_class_proxies[k].wmc = 60
        /\ r.god_class_proxies[k].tna = 0

\* C5: the classifier reports GodClass for the summary of a file whose class
\* has 25 methods, WMC 60 and no attribute (whenever it returns findings)
C5_GodClassFlagged ==
    \A k \in 1..Len(results) :
        (ListsGodClass(results[k]) /\ ~DetectRaises(results[k]))
            => "GodClass" \in Types(DetectSmellsFromSummary(results[k]).smells)

\* C2: for an empty finding list smells_to_binary returns a vector with one
\* entry per entry of the index table, every entry 0
C2_EmptyListAllZero ==
    (cl_pc = "encoded" /\ f_in = <<>>) =>
        /\ DOMAIN y_out = 0..(Cardinality(DOMAIN SMELL_INDEX) - 1)
        /\ \A i \in DOMAIN y_out : y_out[i] = 0

C2_Witness ==
    /\ cl_pc = "encoded" /\ f_in = <<>>
    /\ Cardinality(DOMAIN y_out) = 13

\* C3: position i of the vector is 1 exactly when some finding has a type the
\* table maps to i; order, multiplicity and findings of unknown type change nothing
C3_ScatterWriteExact ==
    cl_pc = "encoded" =>
        /\ DOMAIN y_out = 0..(Cardinality(DOMAIN SMELL_INDEX) - 1)
        /\ \A i \in DOMAIN y_out :
              y_out[i] = IF \E k \in 1..Len(f_in) :
                               /\ FindingType(f_in[k]) \in DOMAIN SMELL_INDEX
                               /\ SMELL_INDEX[FindingType(f_in[k])] = i
                           THEN 1 ELSE 0
        /\ SmellsToBinary(Reverse(f_in)) = y_out
        /\ SmellsToBinary(f_in \o f_in) = y_out
        /\ SmellsToBinary(<<Finding("DeadCode", "MAJOR")>> \o f_in
                            \o <<[severity |-> "INFO"]>>) = y_out

C3_Witness ==
    /\ cl_pc = "encoded"
    /\ Len(f_in) = 2
    /\ FindingType(f_in[1]) = "GodClass"
    /\ FindingType(f_in[2]) = "DeadCode"
    /\ y_out[2] = 1

\* the summaries of C4: every metric at its threshold, whatever the counts of
\* functions and classes and the presence of a test file
AtSpecBoundary(s) ==
    /\ DOMAIN s = DOMAIN BoundarySummary
    /\ \A k \in (DOMAIN s) \ {"functions", "classes", "unit_test_presence"} :
          s[k] = BoundarySummary[k]

\* the same with commit bursts and inter-file coupling at either threshold the
\* code tests them against (3 and 5, 10 and 20)
AtCodeBoundary(s) ==
    /\ DOMAIN s = DOMAIN BoundarySummary
    /\ \A k \in (DOMAIN s) \ {"functions", "classes", "unit_test_presence",
                              "commit_bursts", "inter_file_coupling"} :
          s[k] = BoundarySummary[k]
    /\ s.commit_bursts \in {3, 5}
    /\ s.inter_file_coupling \in {10, 20}

\* C4 as stated: a summary with every metric at the table's threshold gets no finding
C4_BoundaryNoFindings ==
    (cl_pc = "detected" /\ AtSpecBoundary(s_in)) =>
        (~s_out.raised /\ s_out.smells = <<>>)

\* C4 amended: at the thresholds the only finding possible is ShotgunSurgery
\* (commit_bursts > 3 and inter_file_coupling > 10), and there is none once
\* commit bursts is 3 or inter-file coupling is 10
C4_BoundaryOnlyShotgunSurgery ==
    (cl_pc = "detected" /\ AtCodeBoundary(s_in)) =>
        /\ ~s_out.raised
        /\ s_out.smells =
              IF s_in.commit_bursts = 5 /\ s_in.inter_file_coupling = 20
                THEN <<Finding("ShotgunSurgery", "MAJOR")>>
                ELSE <<>>

C4_Witness ==
    /\ cl_pc = "detected"
    /\ AtCodeBoundary(s_in)
    /\ s_in.commit_bursts = 3
    /\ s_in.inter_file_coupling = 20
    /\ s_out.smells = <<>>

\* C6: a summary with more than 20 lines and comment percentage 0 gets a
\* PoorDocumentation finding, whatever its other fields
C6_UncommentedIsPoorlyDocumented ==
    (  cl_pc = "detected"
    /\ Get(s_in, "lines_of_code", 0) > 20
    /\ Get(s_in, "comment_percentage", Real(100, 1)) = 0 ) =>
        (~s_out.raised /\ "PoorDocumentation" \in Types(s_out.smells))

\* the nodes of the subtree of node f, f included
InSubtree(t, f) ==
    LET RECURSIVE Below(_)
        Below(x) == x = f \/ (x # 0 /\ t.parent[x] # 0 /\ Below(t.parent[x]))
    IN  {x \in 1..t.n : Below(x)}

\* C7: the complexity of a function is 1 plus the number of if, for, while,
\* try, with, conditional-expression, boolean-operation, exception-handler and
\* comprehension nodes of its subtree: 1 without any, and never less than 1
C7_CyclomaticIsOnePlusDecisions ==
    ast_pc = "measured" =>
        LET decisions ==
              { x \in InSubtree(tree, cc_node) :
                  tree.kind[x] \in {"If", "For", "While", "Try", "With", "IfExp",
                                    "BoolOp", "ExceptHandler", "comprehension"} }
        IN  /\ cc_val = 1 + Cardinality(decisions)
            /\ cc_val >= 1
            /\ (decisions = {} => cc_val = 1)

C7_Witness ==
    /\ ast_pc = "measured"
    /\ tree.n = 3
    /\ cc_node = 1
    /\ tree.kind[2] = "Assign"
    /\ tree.kind[3] = "AsyncFor"
    /\ cc_val = 1

\* C8: the LCOM of a class with zero or one method is exactly 0, whatever
\* fields that method accesses
C8_LcomZeroUpToOneMethod ==
    (oo_pc = "measured" /\ Len(cls.methods) <= 1) => oo_out.lcom = 0

C8_Witness ==
    /\ oo_pc = "measured"
    /\ Len(cls.methods) = 1
    /\ cls.methods[1].accessed = {"x", "y"}
    /\ oo_out.lcom = 0

\* C9 as stated: the search ends and every depth, the reported maximum
\* included, lies between 0 and N - 1 (the final result, as an invariant)
C9_DepthsBelowNodeCount ==
    cg_pc = "done" =>
        /\ \A k \in 1..Len(depths) : depths[k] \in 0..(names - 1)
        /\ max_depth \in 0..(names - 1)

\* C9 amended: the search ends for every graph, cyclic ones included: at most
\* one frame per node is ever open, and every depth and the reported maximum
\* lie between 0 and N - 1, the maximum being 0 for a graph without nodes
C9_CallDepthTerminatesBounded ==
    /\ [](/\ Len(cg_stack) <= names
          /\ \A k \in 1..Len(cg_stack) : cg_stack[k].maxd \in 0..Max(0, names - 1)
          /\ \A k \in 1..Len(depths) : depths[k] \in 0..(names - 1)
          /\ max_depth \in 0..Max(0, names - 1))
    /\ <>(cg_pc = "done" /\ Len(depths) = names)

\* A calls B, B calls A, and A calls itself: measured, the depth of A is 1
C9_Witness ==
    /\ cg_pc = "done"
    /\ names = 2
    /\ edges = {<<1, 2>>, <<2, 1>>, <<1, 1>>}
    /\ depths[1] = 1
    /\ max_depth = 1

\* the bases of class c that are classes of the file
ResolvableBases(cm, c) == {cm[c][i] : i \in 1..Len(cm[c])} \cap DOMAIN cm

\* S and the classes reached from it in at most n inheritance steps
RECURSIVE ReachedFrom(_, _, _)
ReachedFrom(cm, S, n) ==
    IF n = 0 THEN S
    ELSE ReachedFrom(cm, S \cup UNION {ResolvableBases(cm, x) : x \in S}, n - 1)

Acyclic(cm) ==
    \A c \in DOMAIN cm : c \notin ReachedFrom(cm, ResolvableBases(cm, c), Len(cm))

\* 0 without resolvable base, else 1 + the largest value of a resolvable base
RECURSIVE DitOfBases(_, _)
DitOfBases(cm, c) ==
    IF ResolvableBases(cm, c) = {} THEN 0
    ELSE 1 + MaxOf({DitOfBases(cm, b) : b \in ResolvableBases(cm, c)})

\* C20: in an acyclic declaration every class gets 0 when none of its bases
\* is a class of the file and else 1 + the largest DIT of those bases, in
\* whatever order the bases are listed
C20_DitIsOnePlusMaxOfBases ==
    (dit_pc = "done" /\ Acyclic(class_map)) =>
        \A c \in DOMAIN class_map : dit_out[c] = DitOfBases(class_map, c)

\* C10: inheritance_depth ends for every declaration, cyclic ones included:
\* at most one frame per class is ever open, no depth computed leaves
\* 0..number of classes, and every class of the file gets its value
C10_DitTerminatesBounded ==
    /\ [](/\ Len(dit_stack) <= Cardinality(ClassNames)
          /\ \A k \in 1..Len(dit_stack) :
                dit_stack[k].depth \in 0..Cardinality(ClassNames)
          /\ \A k \in 1..Len(dit_out) : dit_out[k] \in 0..Cardinality(ClassNames))
    /\ <>(dit_pc = "done" /\ Len(dit_out) = Cardinality(ClassNames))

\* A(B) and B(A): both measured, the first at depth 2
C10_Witness ==
    /\ dit_pc = "done"
    /\ class_map = <<(<<2>>), (<<1>>)>>
    /\ dit_out = <<2, 2>>

\* the length of the longest simple call path that starts at u and avoids
\* the nodes of S
RECURSIVE LongestSimplePath(_, _)
LongestSimplePath(u, S) ==
    LET next == {v \in Callees(u) : v \notin S \cup {u}}
    IN  IF next = {} THEN 0
        ELSE 1 + MaxOf({LongestSimplePath(v, S \cup {u}) : v \in next})

\* C21: the depth recorded for every node is the length of the longest
\* simple call path starting at it, and the reported maximum is the longest
\* simple path of the graph, whatever order the callees are visited in
C21_DepthIsLongestSimplePath ==
    cg_pc = "done" =>
        /\ \A n \in 1..names : depths[n] = LongestSimplePath(n, {})
        /\ max_depth = MaxOf({LongestSimplePath(n, {}) : n \in 1..names} \cup {0})

\* C22: every call string collected from a function or method of the file
\* either produced an edge to the node it names (self.m to the method m of
\* the caller's class) or is recorded under its first segment among the
\* caller's cross-module calls
C22_EveryCallResolvedOrRecorded ==
    cb_pc = "built" =>
        \A q \in DOMAIN NameToNode(cb_funcs) :
            \A c \in NameToNode(cb_funcs)[q] :
                \/ \E t \in cb_out.call_edges[q] :
                      /\ t[Len(t)] = c[Len(c)]
                      /\ c[1] = "self" => (Len(t) = 2 /\ t[1] = ClassOf(q))
                \/ c[1] \in cb_out.cross_module_calls[q]

\* the distinct (caller, target) pairs of the graph built
EdgePairs ==
    {p \in (DOMAIN cb_out.call_edges) \X (DOMAIN cb_out.call_edges) :
        p[2] \in cb_out.call_edges[p[1]]}

\* C23: with N the number of distinct qualified names and E the number of
\* distinct caller-to-callee edges, density is E / (N * (N - 1)) when N > 1
\* and 0 when N <= 1
C23_DensityIsEdgesOverPairs ==
    cb_pc = "built" =>
        LET N == Cardinality({cb_funcs[i].q : i \in 1..Len(cb_funcs)})
            E == Cardinality(EdgePairs)
        IN  /\ cb_out.nodes = N
            /\ cb_out.edges = E
            /\ cb_out.density = IF N > 1 THEN (E * Scale) \div (N * (N - 1)) ELSE 0

\* f calls A.m and A.m calls nothing of the file: one edge over two nodes,
\* density 1/2
C23_Witness ==
    /\ cb_pc = "built"
    /\ Len(cb_funcs) = 2
    /\ cb_out.nodes = 2
    /\ cb_out.edges = 1
    /\ 2 * cb_out.density = Scale

\* the sum of the values of a dict of numbers
RECURSIVE SumValues(_, _)
SumValues(d, todo) ==
    IF todo = {} THEN 0
    ELSE LET k == CHOOSE x \in todo : TRUE
         IN  d[k] + SumValues(d, todo \ {k})

\* C24: density lies between 0 and 1, and the fan-in values and the fan-out
\* values both add up to the edge count
C24_DensityWithinUnitInterval ==
    cb_pc = "built" =>
        /\ cb_out.density >= 0
        /\ cb_out.density <= Scale
        /\ SumValues(cb_out.fan_in, DOMAIN cb_out.fan_in) = cb_out.edges
        /\ SumValues(cb_out.fan_out, DOMAIN cb_out.fan_out) = cb_out.edges

\* the control structures that enclose node c up to the nearest enclosing
\* function or class
RECURSIVE EnclosingControls(_, _)
EnclosingControls(t, c) ==
    LET p == t.parent[c]
    IN  IF p = 0 \/ t.kind[p] \in ScopeKinds THEN 0
        ELSE (IF t.kind[p] \in control_types THEN 1 ELSE 0) + EnclosingControls(t, p)

\* C25: max_nesting_level is the largest, over the control structures of
\* the file, of one plus the number of control structures enclosing it up to
\* the nearest enclosing function or class; 0 for a file without any
C25_NestingRestartsInDefinitions ==
    ns_pc = "measured" =>
        ns_out = MaxOf({EnclosingControls(ns_tree, c) + 1 :
                          c \in {x \in 1..ns_tree.n : ns_tree.kind[x] \in control_types}})

\* an if around a function whose body holds an if: the inner one is at
\* depth 1, not 2
C25_Witness ==
    /\ ns_pc = "measured"
    /\ ns_tree.n = 4
    /\ ns_tree.parent = <<0, 1, 2, 3>>
    /\ ns_tree.kind = <<"Module", "If", "FunctionDef", "If">>
    /\ ns_out = 1

\* the other top-level classes that the class measured names in its base
\* list or calls into from one of its methods
CoupledClasses ==
    {k \in co_file \ {co_cls.name} :
        \/ k \in co_cls.bases
        \/ \E i \in 1..Len(co_cls.methods) : k \in co_cls.methods[i].calls}

\* C26: the CBO of a class is the number of distinct other top-level classes
\* in its base list or at the head of a call made by one of its methods; the
\* class itself never counts, so CBO lies in 0..(top-level classes - 1)
C26_CboCountsOtherClasses ==
    co_pc = "measured" =>
        /\ co_out = Cardinality(CoupledClasses)
        /\ co_out \in 0..(Cardinality(co_file) - 1)

\* line idx lies in one of the docstring ranges found
InDocstring(idx) == \E r \in sz_ranges : r[1] <= idx /\ idx <= r[2]

\* the lines outside every docstring range whose stripped text is text
LinesOutside(text) ==
    {i \in 0..(Len(sz_lines) - 1) : ~InDocstring(i) /\ sz_lines[i + 1] = text}

\* C27: every line is counted once: a line of a docstring range as docstring
\* whatever its text, each range line once however the ranges overlap or
\* touch, any other line as blank, comment or code by its text; so
\* LOC = SLOC + CLOC + DLOC + blank_lines
C27_LinesArePartitioned ==
    sz_pc = "measured" =>
        /\ sz_out.LOC = Len(sz_lines)
        /\ sz_out.DLOC = Cardinality({i \in 0..(Len(sz_lines) - 1) : InDocstring(i)})
        /\ sz_out.blank_lines = Cardinality(LinesOutside("blank"))
        /\ sz_out.CLOC = Cardinality(LinesOutside("comment"))
        /\ sz_out.SLOC = Cardinality(LinesOutside("code"))
        /\ sz_out.LOC = sz_out.SLOC + sz_out.CLOC + sz_out.DLOC + sz_out.blank_lines

\* a blank line and a line starting with '#' inside two overlapping
\* docstring ranges, then a line of code: two docstring lines, one code line
C27_Witness ==
    /\ sz_pc = "measured"
    /\ sz_lines = <<"blank", "comment", "code">>
    /\ sz_ranges = {<<0, 1>>, <<1, 1>>}
    /\ sz_out.DLOC = 2
    /\ sz_out.SLOC = 1
    /\ sz_out.blank_lines = 0
    /\ sz_out.CLOC = 0

\* the dated commits of the log that lie in the 7 days that start at instant t
InWindow(t) ==
    {i \in 1..Len(br_dates) :
        br_dates[i] # None /\ t <= br_dates[i] /\ br_dates[i] <= t + 2 * WindowDays}

\* C28: commit_bursts is the largest number of dated commits whose instants
\* fit in one window of 7 days; 0 without dated commit, at least 1 with one,
\* and never above the number of commits
C28_BurstsFitSevenDays ==
    br_pc = "measured" =>
        /\ br_out = MaxOf({Cardinality(InWindow(br_dates[i])) :
                              i \in {k \in 1..Len(br_dates) : br_dates[k] # None}})
        /\ br_out <= Len(br_dates)
        /\ (\E i \in 1..Len(br_dates) : br_dates[i] # None) <=> br_out >= 1

\* the record analyze() makes of file f when f is the only file analysed
RecordAlone(f) == NumericalSummary(f)

C30_LabelingPreservesRecords ==
    b_pc = "labeled" =>
        /\ \A k \in 1..Len(results) : results[k] = NumericalSummary(batch[origin[k]])
        /\ Len(annotated) = Len(results)
        /\ \A k \in 1..Len(annotated) :
              /\ DOMAIN annotated[k]
                    = DOMAIN results[k] \cup {"smells"} \cup LabelColumns
              /\ Cardinality(LabelColumns) = Cardinality(DOMAIN SMELL_INDEX)
              /\ \A key \in DOMAIN results[k] : annotated[k][key] = results[k][key]

\* two records labelled, the first with findings, each still next to its own
\* input record
C30_Witness ==
    /\ b_pc = "labeled"
    /\ Len(results) = 2
    /\ Len(annotated) = 2
    /\ annotated[1].smells # <<>>
    /\ annotated[1].file_path = results[1].file_path
    /\ annotated[2].file_path = results[2].file_path
    /\ results[1].file_path # results[2].file_path

====
